---- MODULE Spec2Model ----
(***************************************************************************)
(* The budget / cash / working-capital metrics engine of the accounting    *)
(* application (lib/backend_calculations.py) over the ledger access layer  *)
(* (lib/db.py).  The store is the hosted database: four tables, shared by  *)
(* every session.  A calculator call sends its requests one after the      *)
(* other; each request is one step, and any session may write between two  *)
(* of them.  `result` holds the call of the script run that is looked at:  *)
(* where it stands, what its requests returned, and its outcome once it is *)
(* over, until the run ends.                                               *)
(***************************************************************************)
EXTENDS Integers, Sequences, FiniteSets, Bags, TLC

VARIABLES
    accounting_budget_years,   \* rows [year_label, opening_cash, savings]
    accounting_budget,         \* rows [id, year_label, category_name, budget_type, budget]
    accounting_transactions,   \* bag of rows [year_label, txn_date, budget_category_id, amount, is_expense]
    working_capital,           \* bag of rows [id, book_year_label, kind, kind_detail, amount]
    result,                    \* the calculator call of this script run: position, frames, outcome
    runs,                      \* bag of the writing page runs and function calls in flight, of any
                               \* session: each its position and what it read
    unique_budget_key          \* whether the table accounting_budget of the database carries the
                               \* unique constraint on (year_label, category_name, budget_type)

vars == <<accounting_budget_years, accounting_budget, accounting_transactions,
          working_capital, result, runs, unique_budget_key>>

-----------------------------------------------------------------------------
(* Values *)

\* Python's None / SQL NULL in a text or key column.
NULL == "<null>"

\* A numeric cell (an amount, an id) is <<n>>; a cell that is NULL or holds text that is
\* no number is <<>>.
Num(n) == <<n>>
NonNumeric == <<>>

\* The coercion that fills a cell that is no number with 1 instead of 0.
to_numeric_fillna_one(v) == IF v = NonNumeric THEN 1 ELSE v[1]

\* pd.to_numeric(col, errors="coerce").fillna(0.0), cell by cell.
to_numeric_fillna(v) == IF v = NonNumeric THEN 0 ELSE v[1]

\* Python truthiness of a str | None argument: `not year_label`.
Falsy(s) == s = "" \/ s = NULL

\* str.strip() on the names the model uses.
strip(s) ==
    CASE s = " Food" -> "Food"
      [] s = "Food " -> "Food"
      [] OTHER -> s

\* Code-point order of the category names the model uses (ORDER BY category_name).
NameOrder == <<" Food", "Dues", "Food", "Food ", "Gala", "Misc", "Rent", "Uncategorized", "food">>
NameRank(n) == CHOOSE i \in 1..Len(NameOrder) : NameOrder[i] = n

\* Order of the budget_type values the model uses (ORDER BY budget_type).
TypeRank(t) ==
    CHOOSE i \in 1..5 : <<"income", "quarter", "semester1", "semester2", "year">>[i] = t

YearLabels == {"2024-25", "2025-26"}
\* What a page may pass as year_label: a year, the empty choice, or nothing.
YearInputs == YearLabels \cup {"", NULL}

-----------------------------------------------------------------------------
(* Bounds *)

MaxBudgetRows == 4
MaxWCRows == 4
\* Rows of one year, kind and kind_detail the add forms are let to store side by side.
MaxCopies == 1
MaxDashBudgetRows == 3
MaxTransactions == 2

-----------------------------------------------------------------------------
(* Ledger access layer: reads *)

\* The rows of `rows` as a sequence ordered by category_name, budget_type (then id).
BudgetKeyLess(a, b) ==
    \/ NameRank(a.category_name) < NameRank(b.category_name)
    \/ /\ a.category_name = b.category_name
       /\ \/ TypeRank(a.budget_type) < TypeRank(b.budget_type)
          \/ a.budget_type = b.budget_type /\ a.id < b.id

RECURSIVE OrderBudget(_)
OrderBudget(rows) ==
    IF rows = {} THEN <<>>
    ELSE LET first == CHOOSE r \in rows : \A o \in rows \ {r} : BudgetKeyLess(r, o)
         IN  <<first>> \o OrderBudget(rows \ {first})

\* df[col].sum() of the budget column.
RECURSIVE SumBudget(_)
SumBudget(df) ==
    IF df = <<>> THEN 0 ELSE to_numeric_fillna(Head(df).budget) + SumBudget(Tail(df))

\* get_opening_cash without the year filter on the query.
get_opening_cash_any_year(year_label) ==
    IF Falsy(year_label) THEN 0
    ELSE IF Cardinality(accounting_budget_years) = 1
         THEN LET r == CHOOSE x \in accounting_budget_years : TRUE
              IN  to_numeric_fillna(r.opening_cash)
         ELSE 0

get_opening_cash(year_label) ==
    IF Falsy(year_label) THEN 0
    ELSE LET rows == {r \in accounting_budget_years : r.year_label = year_label}
         IN  IF Cardinality(rows) = 1
             THEN LET r == CHOOSE x \in rows : TRUE
                  IN  to_numeric_fillna(r.opening_cash)
             ELSE 0

get_savings(year_label) ==
    IF Falsy(year_label) THEN 0
    ELSE LET rows == {r \in accounting_budget_years : r.year_label = year_label}
         IN  IF Cardinality(rows) = 1
             THEN LET r == CHOOSE x \in rows : TRUE
                  IN  to_numeric_fillna(r.savings)
             ELSE 0

fetch_budget_entries(year_label) ==
    IF Falsy(year_label) THEN <<>>
    ELSE LET df == OrderBudget({r \in accounting_budget : r.year_label = year_label})
         IN  [i \in 1..Len(df) |->
                 [df[i] EXCEPT !.budget = Num(to_numeric_fillna(df[i].budget))]]

\* The working-capital rows of one kind, of one book year when a year is given.
load_working_capital(book_year_label, kind) ==
    LET keep == {r \in BagToSet(working_capital) :
                    /\ r.kind = kind
                    /\ Falsy(book_year_label) \/ r.book_year_label = book_year_label}
    IN  [r \in keep |-> CopiesIn(r, working_capital)]

\* df["amount"].sum() after the coercion, over a frame held as a bag of rows.
RECURSIVE SumAmountOver(_, _)
SumAmountOver(rows, df) ==
    IF rows = {} THEN 0
    ELSE LET r == CHOOSE x \in rows : TRUE
         IN  CopiesIn(r, df) * to_numeric_fillna(r.amount) + SumAmountOver(rows \ {r}, df)

SumAmount(df) == SumAmountOver(BagToSet(df), df)

\* The Other bucket taking every row that is no Member and no Sponsor.
WithKindDetail_other_is_rest(df, label) ==
    [r \in {x \in BagToSet(df) :
               IF label = "Other" THEN x.kind_detail \notin {"Member", "Sponsor"}
               ELSE x.kind_detail = label} |-> CopiesIn(r, df)]

\* df[df["kind_detail"] == label]
WithKindDetail(df, label) ==
    [r \in {x \in BagToSet(df) : x.kind_detail = label} |-> CopiesIn(r, df)]

fetch_transactions == accounting_transactions

\* The accounting_budget rows of the year (of every year without one).  With no such row
\* the function falls off its end and returns None: is_none.
fetch_categories_df(year_label) ==
    LET rows == {r \in accounting_budget : Falsy(year_label) \/ r.year_label = year_label}
    IN  [is_none |-> rows = {}, rows |-> rows]

\* The left join of one transaction with the categories on budget_category_id = id.
WithCategory(t, categories_df) ==
    LET match == {c \in categories_df : Num(c.id) = t.budget_category_id}
    IN  [year_label |-> t.year_label, txn_date |-> t.txn_date,
         budget_category_id |-> t.budget_category_id, amount |-> t.amount,
         is_expense |-> t.is_expense,
         category |-> IF match = {} THEN "Uncategorized"
                      ELSE (CHOOSE c \in match : TRUE).category_name]

WithoutCategory(x) ==
    [year_label |-> x.year_label, txn_date |-> x.txn_date,
     budget_category_id |-> x.budget_category_id, amount |-> x.amount,
     is_expense |-> x.is_expense]

\* The year filter is an elementwise ==, which is False on every row when selected_year
\* is None.
\* outcome "stopped": st.stop() ended the script run before any frame was built, so the
\* caller gets no value; "raised": an exception left the call.
\* The rows of the selected year, kept once the fetch_transactions request has returned.
transactions_of_year(selected_year, rows) ==
    [t \in {x \in BagToSet(rows) : selected_year # NULL /\ x.year_label = selected_year}
        |-> CopiesIn(t, rows)]

\* What fetch_transactions_with_categories makes of the year's rows and of the
\* categories its second request returned.
fetch_transactions_with_categories_on(transaction_df, categories_df) ==
    IF categories_df.is_none THEN [outcome |-> "raised", df |-> EmptyBag]
    ELSE [outcome |-> "returned",
          df |-> [x \in {WithCategory(t, categories_df.rows) : t \in DOMAIN transaction_df}
                     |-> transaction_df[WithoutCategory(x)]]]

\* The st.stop() of an empty transaction table.
Stopped == [outcome |-> "stopped", df |-> EmptyBag]

\* The call with nothing written between its two requests.
fetch_transactions_with_categories(selected_year) ==
    LET rows == fetch_transactions
    IN  IF rows = EmptyBag THEN Stopped
        ELSE fetch_transactions_with_categories_on(transactions_of_year(selected_year, rows),
                                                   fetch_categories_df(selected_year))

-----------------------------------------------------------------------------
(* Calculators *)

\* No calculator call has been made in this script run.
NoResult == [op |-> "none", pc |-> "none"]

IsIncome(r) == r.budget_type = "income"
IsSemester1(r) == r.budget_type = "semester1"
IsSemester2(r) == r.budget_type = "semester2"
\* The year bucket taking every type that is no income and no semester.
IsYear_catch_all(r) == r.budget_type \notin {"income", "semester1", "semester2"}

IsYear(r) == r.budget_type = "year"

ZeroBudgetMetrics ==
    [opening_cash |-> 0, total_income |-> 0, total_expenses_sem1 |-> 0,
     total_expenses_sem2 |-> 0, total_expenses_year |-> 0, total_expenses_all |-> 0,
     savings |-> 0, free_float |-> 0]

\* total_expenses_all that forgets the full-year expenses.
calculate_budget_metrics_no_year_exp(year_label, opening_cash, savings, entries) ==
    IF Falsy(year_label) THEN ZeroBudgetMetrics
    ELSE
    LET total_income == IF entries = <<>> THEN 0
                        ELSE SumBudget(SelectSeq(entries, IsIncome))
        sem1 == IF entries = <<>> THEN 0
                ELSE SumBudget(SelectSeq(entries, IsSemester1))
        sem2 == IF entries = <<>> THEN 0
                ELSE SumBudget(SelectSeq(entries, IsSemester2))
        year_exp == IF entries = <<>> THEN 0
                    ELSE SumBudget(SelectSeq(entries, IsYear))
        total_expenses_all == sem1 + sem2
        free_float == opening_cash + total_income - total_expenses_all - savings
    IN  [opening_cash |-> opening_cash, total_income |-> total_income,
         total_expenses_sem1 |-> sem1, total_expenses_sem2 |-> sem2,
         total_expenses_year |-> year_exp, total_expenses_all |-> total_expenses_all,
         savings |-> savings, free_float |-> free_float]

\* A missing year_label falling back to a year of the store instead of returning zeros.
calculate_budget_metrics_default_year(year_label, opening_cash, savings, entries) ==
    LET oc == IF Falsy(year_label) THEN get_opening_cash("2025-26") ELSE opening_cash
        sv == IF Falsy(year_label) THEN get_savings("2025-26") ELSE savings
        df == IF Falsy(year_label) THEN fetch_budget_entries("2025-26") ELSE entries
        income == SumBudget(SelectSeq(df, IsIncome))
    IN  [ZeroBudgetMetrics EXCEPT !.opening_cash = oc, !.savings = sv,
                                  !.total_income = income,
                                  !.free_float = oc + income - sv]

\* What calculate_budget_metrics returns once its three requests have returned
\* opening_cash, savings and entries (no request is sent without a year_label).
calculate_budget_metrics_on(year_label, opening_cash, savings, entries) ==
    IF Falsy(year_label) THEN ZeroBudgetMetrics
    ELSE
    LET total_income == IF entries = <<>> THEN 0
                        ELSE SumBudget(SelectSeq(entries, IsIncome))
        sem1 == IF entries = <<>> THEN 0
                ELSE SumBudget(SelectSeq(entries, IsSemester1))
        sem2 == IF entries = <<>> THEN 0
                ELSE SumBudget(SelectSeq(entries, IsSemester2))
        year_exp == IF entries = <<>> THEN 0
                    ELSE SumBudget(SelectSeq(entries, IsYear))
        total_expenses_all == sem1 + sem2 + year_exp
        free_float == opening_cash + total_income - total_expenses_all - savings
    IN  [opening_cash |-> opening_cash, total_income |-> total_income,
         total_expenses_sem1 |-> sem1, total_expenses_sem2 |-> sem2,
         total_expenses_year |-> year_exp, total_expenses_all |-> total_expenses_all,
         savings |-> savings, free_float |-> free_float]

\* The call with nothing written between its requests.
calculate_budget_metrics(year_label) ==
    calculate_budget_metrics_on(year_label, get_opening_cash(year_label),
                                get_savings(year_label), fetch_budget_entries(year_label))

\* The inventory fetch scoped to the book year like the AR and AP fetches.
inventory_book_year_of_the_call(year_label) == year_label

\* The book year the inventory request names: none.
inventory_book_year(year_label) == NULL

\* What the call keeps of the receivables it loaded: their total and the three buckets.
ar_totals(ar_df) ==
    [total_ar |-> IF ar_df = EmptyBag THEN 0 ELSE SumAmount(ar_df),
     total_ar_member |-> IF ar_df = EmptyBag THEN 0
                         ELSE SumAmount(WithKindDetail(ar_df, "Member")),
     total_ar_sponsor |-> IF ar_df = EmptyBag THEN 0
                          ELSE SumAmount(WithKindDetail(ar_df, "Sponsor")),
     total_ar_other |-> IF ar_df = EmptyBag THEN 0
                        ELSE SumAmount(WithKindDetail(ar_df, "Other"))]

\* What the call keeps of the payables, and of the inventory, it loaded: the total.
total_amount(df) == IF df = EmptyBag THEN 0 ELSE SumAmount(df)

\* Net working capital that leaves the inventory out.
calculate_working_capital_metrics_no_inv(ar, total_ap, total_inventory) ==
    ar @@ [total_ap |-> total_ap, total_inventory |-> total_inventory,
           nwc |-> ar.total_ar - total_ap]

\* What calculate_working_capital_metrics returns from the totals of its three loader
\* calls.
calculate_working_capital_metrics_on(ar, total_ap, total_inventory) ==
    ar @@ [total_ap |-> total_ap, total_inventory |-> total_inventory,
           nwc |-> ar.total_ar + total_inventory - total_ap]

\* The call with nothing written between its loader calls.
calculate_working_capital_metrics(year_label) ==
    calculate_working_capital_metrics_on(
        ar_totals(load_working_capital(year_label, "AR")),
        total_amount(load_working_capital(year_label, "AP")),
        total_amount(load_working_capital(inventory_book_year(year_label), "INVENTORY")))

\* The period filter leaving the income entries in under Everything.
filter_budget_keep_income(budget_df, period_filter) ==
    IF period_filter = "Sem 1" THEN SelectSeq(budget_df, IsSemester1)
    ELSE IF period_filter = "Sem 2" THEN SelectSeq(budget_df, IsSemester2)
    ELSE IF period_filter = "Year Expenses" THEN SelectSeq(budget_df, IsYear)
    ELSE budget_df

IsExpenseType(r) == r.budget_type \in {"semester1", "semester2", "year"}

\* The period filter that knows its four names and selects nothing under any other.
filter_budget_known_only(budget_df, period_filter) ==
    IF period_filter = "Sem 1" THEN SelectSeq(budget_df, IsSemester1)
    ELSE IF period_filter = "Sem 2" THEN SelectSeq(budget_df, IsSemester2)
    ELSE IF period_filter = "Year Expenses" THEN SelectSeq(budget_df, IsYear)
    ELSE IF period_filter = "Everything" THEN SelectSeq(budget_df, IsExpenseType)
    ELSE <<>>

filter_budget(budget_df, period_filter) ==
    IF period_filter = "Sem 1" THEN SelectSeq(budget_df, IsSemester1)
    ELSE IF period_filter = "Sem 2" THEN SelectSeq(budget_df, IsSemester2)
    ELSE IF period_filter = "Year Expenses" THEN SelectSeq(budget_df, IsYear)
    ELSE SelectSeq(budget_df, IsExpenseType)

\* The signed amount that counts an income like an expense.
net_amount_unsigned(r) == to_numeric_fillna(r.amount)

net_amount(r) ==
    IF r.is_expense THEN to_numeric_fillna(r.amount) ELSE 0 - to_numeric_fillna(r.amount)

RECURSIVE SumNetAmountOver(_, _)
SumNetAmountOver(rows, df) ==
    IF rows = {} THEN 0
    ELSE LET r == CHOOSE x \in rows : TRUE
         IN  CopiesIn(r, df) * net_amount(r) + SumNetAmountOver(rows \ {r}, df)

\* txn_df.groupby("category")["net_amount"].sum(): category -> net spending.
spending_series(txn_df) ==
    IF txn_df = EmptyBag THEN <<>>
    ELSE [c \in {r.category : r \in BagToSet(txn_df)} |->
             SumNetAmountOver({r \in BagToSet(txn_df) : r.category = c}, txn_df)]

\* Letter case and surrounding whitespace removed, on the names the model uses.
Normalized(name) ==
    CASE name \in {" Food", "Food ", "Food", "food"} -> "food"
      [] OTHER -> name

RECURSIVE SumSpending(_, _)
SumSpending(keys, spending) ==
    IF keys = {} THEN 0
    ELSE LET k == CHOOSE x \in keys : TRUE
         IN  spending[k] + SumSpending(keys \ {k}, spending)

\* The merge matching the names with letter case and surrounding whitespace removed.
merged_rows_normalized(budget_df, spending) ==
    [i \in 1..Len(budget_df) |->
        LET b == budget_df[i]
            net_spending ==
                SumSpending({k \in DOMAIN spending :
                                Normalized(k) = Normalized(b.category_name)}, spending)
            budget == to_numeric_fillna(b.budget)
        IN  [category |-> b.category_name, budget |-> budget,
             net_spending |-> net_spending, remaining |-> budget - net_spending,
             budget_type |-> b.budget_type]]

\* The remaining column never shown above the budget: refunds beyond the expenses ignored.
merged_rows_remaining_capped(budget_df, spending) ==
    [i \in 1..Len(budget_df) |->
        LET b == budget_df[i]
            net_spending == IF b.category_name \in DOMAIN spending
                            THEN spending[b.category_name] ELSE 0
            budget == to_numeric_fillna(b.budget)
        IN  [category |-> b.category_name, budget |-> budget,
             net_spending |-> net_spending,
             remaining |-> IF net_spending < 0 THEN budget ELSE budget - net_spending,
             budget_type |-> b.budget_type]]

\* A category's spending given to its first budget entry alone, 0 to the others.
merged_rows_first_entry_only(budget_df, spending) ==
    [i \in 1..Len(budget_df) |->
        LET b == budget_df[i]
            first == \A j \in 1..(i - 1) : budget_df[j].category_name # b.category_name
            net_spending == IF first /\ b.category_name \in DOMAIN spending
                            THEN spending[b.category_name] ELSE 0
            budget == to_numeric_fillna(b.budget)
        IN  [category |-> b.category_name, budget |-> budget,
             net_spending |-> net_spending, remaining |-> budget - net_spending,
             budget_type |-> b.budget_type]]

\* The left merge of the budget entries with the spending, and the remaining column.
merged_rows(budget_df, spending) ==
    [i \in 1..Len(budget_df) |->
        LET b == budget_df[i]
            net_spending == IF b.category_name \in DOMAIN spending
                            THEN spending[b.category_name] ELSE 0
            budget == to_numeric_fillna(b.budget)
        IN  [category |-> b.category_name, budget |-> budget,
             net_spending |-> net_spending, remaining |-> budget - net_spending,
             budget_type |-> b.budget_type]]

\* The transactions fetched whatever the budget entries are.
empty_before_transactions_never(budget_df, period_filter) == FALSE

\* The call returns the empty frame, before it fetches the transactions, when the year
\* has no budget entry or none that the period filter selects.
empty_before_transactions(budget_df, period_filter) ==
    budget_df = <<>> \/ filter_budget(budget_df, period_filter) = <<>>

EmptyDashboard == [outcome |-> "returned", value |-> <<>>, fetched_transactions |-> FALSE]

\* What calculate_dashboard_data returns from the budget entries the period filter
\* selected and the transactions, when it went on to fetch the transactions.
calculate_dashboard_data_on(budget_df, txn_df) ==
    IF txn_df.outcome # "returned"
    THEN [outcome |-> txn_df.outcome, value |-> <<>>, fetched_transactions |-> TRUE]
    ELSE [outcome |-> "returned", fetched_transactions |-> TRUE,
          value |-> merged_rows(budget_df, spending_series(txn_df.df))]

\* The call with nothing written between its requests.
calculate_dashboard_data(year_label, period_filter) ==
    LET budget_df == fetch_budget_entries(year_label)
    IN  IF empty_before_transactions(budget_df, period_filter) THEN EmptyDashboard
        ELSE calculate_dashboard_data_on(filter_budget(budget_df, period_filter),
                                         fetch_transactions_with_categories(year_label))

-----------------------------------------------------------------------------
(* Cash flow and cash position *)

\* pd.to_datetime on the ISO date strings the model uses: the day as a number that
\* orders like the calendar.
to_datetime(txn_date) ==
    CASE txn_date = "2025-01-01" -> 20250101
      [] txn_date = "2025-01-02" -> 20250102
      [] txn_date = "2025-01-03" -> 20250103

\* The dashboard's sign carried over to the cash flow: an expense counted as positive.
flow_expense_positive(r) ==
    IF r.is_expense THEN to_numeric_fillna(r.amount) ELSE 0 - to_numeric_fillna(r.amount)

\* Income is positive for the cash flow, an expense negative.
flow(r) ==
    IF r.is_expense THEN 0 - to_numeric_fillna(r.amount) ELSE to_numeric_fillna(r.amount)

RECURSIVE SumFlowOver(_, _)
SumFlowOver(rows, df) ==
    IF rows = {} THEN 0
    ELSE LET r == CHOOSE x \in rows : TRUE
         IN  CopiesIn(r, df) * flow(r) + SumFlowOver(rows \ {r}, df)

RECURSIVE SortDates(_)
SortDates(dates) ==
    IF dates = {} THEN <<>>
    ELSE LET first == CHOOSE d \in dates : \A o \in dates : d <= o
         IN  <<first>> \o SortDates(dates \ {first})

\* One point per transaction instead of one per day.
daily_flow_ungrouped(txn_df) ==
    LET rows == BagToSet(txn_df)
        RECURSIVE Points(_)
        Points(left) ==
            IF left = {} THEN <<>>
            ELSE LET r == CHOOSE x \in left :
                             \A o \in left : to_datetime(x.txn_date) <= to_datetime(o.txn_date)
                 IN  [i \in 1..CopiesIn(r, txn_df) |->
                         [txn_date |-> to_datetime(r.txn_date), flow |-> flow(r)]]
                     \o Points(left \ {r})
    IN  Points(rows)

\* txn_df.groupby("txn_date")["flow"].sum().sort_index().reset_index()
daily_flow(txn_df) ==
    LET dates == SortDates({to_datetime(r.txn_date) : r \in BagToSet(txn_df)})
    IN  [i \in 1..Len(dates) |->
            [txn_date |-> dates[i],
             flow |-> SumFlowOver({r \in BagToSet(txn_df) :
                                      to_datetime(r.txn_date) = dates[i]}, txn_df)]]

\* The flow of the day alone in place of the running sum.
cumsum_of_the_day(daily, i) == daily[i].flow

\* daily_flow["flow"].cumsum() at row i.
RECURSIVE cumsum(_, _)
cumsum(daily, i) == IF i = 0 THEN 0 ELSE cumsum(daily, i - 1) + daily[i].flow

\* The series without the fallback point: empty for a year without transactions.
calculate_cash_flow_evolution_no_fallback(opening_cash, txn_df, today) ==
    IF txn_df.outcome # "returned" THEN [outcome |-> txn_df.outcome]
    ELSE LET daily == daily_flow(txn_df.df)
         IN  [outcome |-> "returned",
              value |-> [i \in 1..Len(daily) |->
                            [date |-> daily[i].txn_date,
                             balance |-> opening_cash + cumsum(daily, i)]]]

\* What calculate_cash_flow_evolution returns from the opening cash and the transactions
\* its requests returned.  today is pd.Timestamp.now().date() at the time of the call.
calculate_cash_flow_evolution_on(opening_cash, txn_df, today) ==
    IF txn_df.outcome # "returned" THEN [outcome |-> txn_df.outcome]
    ELSE IF txn_df.df = EmptyBag
    THEN [outcome |-> "returned",
          value |-> <<[date |-> today, balance |-> opening_cash]>>]
    ELSE LET daily == daily_flow(txn_df.df)
         IN  [outcome |-> "returned",
              value |-> [i \in 1..Len(daily) |->
                            [date |-> daily[i].txn_date,
                             balance |-> opening_cash + cumsum(daily, i)]]]

\* The call with nothing written between its requests.
calculate_cash_flow_evolution(year_label, today) ==
    calculate_cash_flow_evolution_on(get_opening_cash(year_label),
                                     fetch_transactions_with_categories(year_label), today)

\* The balance of the first row of the series instead of the last.
calculate_current_cash_position_first_row(year_label, cash_flow_df) ==
    IF cash_flow_df.outcome # "returned" THEN [outcome |-> cash_flow_df.outcome]
    ELSE IF cash_flow_df.value = <<>>
    THEN [outcome |-> "returned", value |-> get_opening_cash(year_label)]
    ELSE [outcome |-> "returned", value |-> cash_flow_df.value[1].balance]

\* What calculate_current_cash_position makes of the series.  An empty series would send
\* one more get_opening_cash request; the series always holds a point.
calculate_current_cash_position_on(year_label, cash_flow_df) ==
    IF cash_flow_df.outcome # "returned" THEN [outcome |-> cash_flow_df.outcome]
    ELSE IF cash_flow_df.value = <<>>
    THEN [outcome |-> "returned", value |-> get_opening_cash(year_label)]
    ELSE [outcome |-> "returned",
          value |-> cash_flow_df.value[Len(cash_flow_df.value)].balance]

\* The call with nothing written between its requests.
calculate_current_cash_position(year_label, today) ==
    calculate_current_cash_position_on(year_label,
                                       calculate_cash_flow_evolution(year_label, today))

\* The receivables added in place of the net working capital.
calculate_cash_position_with_nwc_ar_only(current_cash, wc_metrics) ==
    [outcome |-> "returned", value |-> current_cash + wc_metrics.total_ar]

\* What calculate_cash_position_with_nwc returns from the cash position and the
\* working-capital metrics.
calculate_cash_position_with_nwc_on(current_cash, wc_metrics) ==
    [outcome |-> "returned", value |-> current_cash + wc_metrics.nwc]

\* The call with nothing written between its requests.
calculate_cash_position_with_nwc(year_label, today) ==
    LET current_cash == calculate_current_cash_position(year_label, today)
    IN  IF current_cash.outcome # "returned" THEN [outcome |-> current_cash.outcome]
        ELSE calculate_cash_position_with_nwc_on(
                 current_cash.value, calculate_working_capital_metrics(year_label))

-----------------------------------------------------------------------------
(* Steps *)

\* The page runs and writing calls the model follows at one time.
MaxRuns == 2

\* One more run or call is in flight, one is over, one has gone a step on.
Started(call) == runs (+) SetToBag({call})
Ended(call) == runs (-) SetToBag({call})
Moved(call, next) == (runs (-) SetToBag({call})) (+) SetToBag({next})

\* The database as the docstring of add_budget_category describes it (db.py 237-238): the
\* table accounting_budget carries the unique constraint.
Init ==
    /\ accounting_budget_years = {}
    /\ accounting_budget = {}
    /\ accounting_transactions = EmptyBag
    /\ working_capital = EmptyBag
    /\ result = NoResult
    /\ runs = EmptyBag
    /\ unique_budget_key = TRUE

\* The four tables: what a calculator call leaves as it is.
store == <<accounting_budget_years, accounting_budget, accounting_transactions,
           working_capital>>

\* A script run ends, at its end or stopped on the way: what it had computed is gone, the
\* store stays.
EndOfRun ==
    /\ result # NoResult
    /\ result' = NoResult
    /\ UNCHANGED <<unique_budget_key, store, runs>>

\* The ids something still holds: the rows stored, the links of the transactions stored,
\* the frames a calculator call has fetched, the id an insert page has looked up.
Links(df) ==
    {t.budget_category_id[1] :
        t \in {x \in BagToSet(df) : x.budget_category_id # NonNumeric}}

IdsHeld ==
    {r.id : r \in accounting_budget}
      \cup Links(accounting_transactions)
      \cup (IF "transaction_df" \in DOMAIN result THEN Links(result.transaction_df) ELSE {})
      \cup (IF "budget_df" \in DOMAIN result
            THEN {result.budget_df[i].id : i \in DOMAIN result.budget_df} ELSE {})
      \cup {call.budget_category_id[1] :
                call \in {c \in BagToSet(runs) : "budget_category_id" \in DOMAIN c}}

\* The id the database gives a new accounting_budget row: a value it has never given.
\* Ids are compared for equality alone, so the model takes the number of the key of the
\* new row, raised by 1000 while that number is held somewhere: by a row, by a
\* transaction, or by a call or a page run that read it before the row was deleted.
YearRank(y) == CHOOSE i \in 1..2 : <<"2024-25", "2025-26">>[i] = y

NewBudgetId(year_label, name, budget_type) ==
    LET base == 100 * YearRank(year_label) + 10 * NameRank(name) + TypeRank(budget_type)
        free == {i \in {base + 1000 * k : k \in 0..Cardinality(IdsHeld)} : i \notin IdsHeld}
    IN  CHOOSE i \in free : \A j \in free : i <= j

\* A budget year is created with its opening cash and savings target.
create_budget_year(year_label, opening_cash, savings) ==
    /\ ~Falsy(year_label)
    /\ \A r \in accounting_budget_years : r.year_label # year_label
    /\ accounting_budget_years' = accounting_budget_years \cup
          {[year_label |-> year_label, opening_cash |-> opening_cash, savings |-> savings]}
    /\ UNCHANGED <<unique_budget_key, accounting_budget, accounting_transactions, working_capital, result, runs>>

\* The year rows after the UPDATE of update_opening_cash.
years_after_update_opening_cash(year_label, amount) ==
    IF Falsy(year_label) THEN accounting_budget_years
    ELSE {IF r.year_label = year_label THEN [r EXCEPT !.opening_cash = Num(amount)] ELSE r
            : r \in accounting_budget_years}

update_opening_cash(year_label, amount) ==
    /\ ~Falsy(year_label)
    /\ accounting_budget_years' = years_after_update_opening_cash(year_label, amount)
    /\ UNCHANGED <<unique_budget_key, accounting_budget, accounting_transactions, working_capital, result, runs>>

\* The INSERT of a key is refused (code 23505): the table carries the unique constraint
\* on (year_label, category_name, budget_type) the insert relies on, and a row has the key.
BudgetKeyTaken(rows, year_label, name, budget_type) ==
    /\ unique_budget_key
    /\ \E r \in rows : /\ r.year_label = year_label
                       /\ r.category_name = name
                       /\ r.budget_type = budget_type

\* The budget rows after the INSERT of add_budget_category: the function returns before
\* it without a year or a name, and the database refuses a key that is taken.
budget_after_add(year_label, name, budget_type, budget) ==
    IF \/ Falsy(year_label) \/ Falsy(name)
       \/ BudgetKeyTaken(accounting_budget, year_label, strip(name), budget_type)
    THEN accounting_budget
    ELSE accounting_budget \cup
            {[id |-> NewBudgetId(year_label, strip(name), budget_type),
              year_label |-> year_label, category_name |-> strip(name),
              budget_type |-> budget_type, budget |-> Num(budget)]}

add_budget_category(year_label, name, budget_type, budget) ==
    /\ ~Falsy(year_label) /\ ~Falsy(name)
    /\ ~BudgetKeyTaken(accounting_budget, year_label, strip(name), budget_type)
    /\ accounting_budget' = budget_after_add(year_label, name, budget_type, budget)
    /\ UNCHANGED <<unique_budget_key, accounting_budget_years, accounting_transactions, working_capital, result, runs>>

\* The budget rows after the DELETE of delete_budget_category: the rows of
\* (year_label, name), of one budget_type when one is given, are deleted; the database
\* refuses the statement (foreign key, code 23503) while a transaction is linked to one
\* of them.
budget_after_delete(year_label, name, budget_type) ==
    LET doomed == {r \in accounting_budget :
                      /\ r.year_label = year_label /\ r.category_name = name
                      /\ Falsy(budget_type) \/ r.budget_type = budget_type}
        linked == \E r \in doomed, t \in BagToSet(accounting_transactions) :
                      t.budget_category_id = Num(r.id)
    IN  IF Falsy(year_label) \/ Falsy(name) \/ linked THEN accounting_budget
        ELSE accounting_budget \ doomed

delete_budget_category(year_label, name, budget_type) ==
    /\ ~Falsy(year_label) /\ ~Falsy(name)
    /\ accounting_budget' = budget_after_delete(year_label, name, budget_type)
    /\ UNCHANGED <<unique_budget_key, accounting_budget_years, accounting_transactions, working_capital,
                   result, runs>>

\* No two accounting_budget rows share (year_label, category_name, budget_type).
KeysUnique(rows) ==
    \A a \in rows, b \in rows :
        (a.id # b.id) =>
            <<a.year_label, a.category_name, a.budget_type>>
                # <<b.year_label, b.category_name, b.budget_type>>

\* The three UPDATE statements of update_budget_category, each on the rows it finds.  The
\* database accepts a statement when the table carries no unique constraint or the rows
\* it leaves share no key.
\* After the first the target name is new_name, after the second the target type is
\* new_type, whether the statement was sent or not.
rows_renamed(rows, year_label, old_name, new_name) ==
    {IF r.year_label = year_label /\ r.category_name = old_name
     THEN [r EXCEPT !.category_name = new_name] ELSE r : r \in rows}

rows_retyped(rows, year_label, target_name, old_type, new_type) ==
    {IF /\ r.year_label = year_label
        /\ r.category_name = target_name
        /\ r.budget_type = old_type
     THEN [r EXCEPT !.budget_type = new_type] ELSE r : r \in rows}

rows_priced(rows, year_label, target_name, target_type, amount) ==
    {IF /\ r.year_label = year_label
        /\ r.category_name = target_name
        /\ r.budget_type = target_type
     THEN [r EXCEPT !.budget = Num(amount)] ELSE r : r \in rows}

\* The table after update_budget_category with nothing written between its statements.
\* The function returns before them on an argument that is empty; a statement the unique
\* constraint rejects raises, and the statements before it stay.
budget_after_update(rows, year_label, old_name, new_name, old_type, new_type, amount) ==
    LET renamed == IF new_name # old_name
                   THEN rows_renamed(rows, year_label, old_name, new_name)
                   ELSE rows
        retyped == IF new_type # old_type
                   THEN rows_retyped(renamed, year_label, new_name, old_type, new_type)
                   ELSE renamed
        priced == rows_priced(retyped, year_label, new_name, new_type, amount)
    IN  IF \/ Falsy(year_label) \/ Falsy(old_name) \/ Falsy(new_name)
           \/ Falsy(old_type) \/ Falsy(new_type)
        THEN rows
        ELSE IF (unique_budget_key /\ ~KeysUnique(renamed)) THEN rows
        ELSE IF (unique_budget_key /\ ~KeysUnique(retyped)) THEN renamed
        ELSE priced

\* The statement a call of update_budget_category sends first.
first_update(old_name, new_name, old_type, new_type) ==
    IF new_name # old_name THEN "category_name"
    ELSE IF new_type # old_type THEN "budget_type"
    ELSE "budget"

\* update_budget_category past its guard, about to send its first statement.
update_call(year_label, old_name, new_name, old_type, new_type, amount) ==
    [op |-> "update_budget_category",
     pc |-> first_update(old_name, new_name, old_type, new_type),
     year_label |-> year_label, old_name |-> old_name, new_name |-> new_name,
     old_type |-> old_type, new_type |-> new_type, amount |-> amount]

\* update_budget_category is entered, by any session and whatever else is in flight: it
\* returns at once on an argument that is empty.
update_budget_category(year_label, old_name, new_name, old_type, new_type, amount) ==
    /\ BagCardinality(runs) < MaxRuns
    /\ ~Falsy(year_label) /\ ~Falsy(old_name) /\ ~Falsy(new_name)
    /\ ~Falsy(old_type) /\ ~Falsy(new_type)
    /\ runs' = Started(update_call(year_label, old_name, new_name, old_type, new_type, amount))
    /\ UNCHANGED <<unique_budget_key, store, result>>

\* 1. Update name if changed.  The statement is refused, and the call left by the
\* exception, when a renamed row would take a key that is taken.
update_category_name ==
    \E run \in BagToSet(runs) :
    /\ run.op = "update_budget_category" /\ run.pc = "category_name"
    /\ LET renamed == rows_renamed(accounting_budget, run.year_label, run.old_name,
                                   run.new_name)
       IN  IF unique_budget_key => KeysUnique(renamed)
           THEN /\ accounting_budget' = renamed
                /\ runs' = Moved(run, [run EXCEPT !.pc = IF run.new_type # run.old_type
                                                         THEN "budget_type" ELSE "budget"])
           ELSE /\ accounting_budget' = accounting_budget
                /\ runs' = Ended(run)
    /\ UNCHANGED <<unique_budget_key, accounting_budget_years, accounting_transactions, working_capital, result>>

\* 2. Update type if changed.
update_budget_type ==
    \E run \in BagToSet(runs) :
    /\ run.op = "update_budget_category" /\ run.pc = "budget_type"
    /\ LET retyped == rows_retyped(accounting_budget, run.year_label, run.new_name,
                                   run.old_type, run.new_type)
       IN  IF unique_budget_key => KeysUnique(retyped)
           THEN /\ accounting_budget' = retyped
                /\ runs' = Moved(run, [run EXCEPT !.pc = "budget"])
           ELSE /\ accounting_budget' = accounting_budget
                /\ runs' = Ended(run)
    /\ UNCHANGED <<unique_budget_key, accounting_budget_years, accounting_transactions, working_capital, result>>

\* 3. Always update the amount: the call is over.
update_budget ==
    \E run \in BagToSet(runs) :
    /\ run.op = "update_budget_category" /\ run.pc = "budget"
    /\ accounting_budget' = rows_priced(accounting_budget, run.year_label, run.new_name,
                                        run.new_type, run.amount)
    /\ runs' = Ended(run)
    /\ UNCHANGED <<unique_budget_key, accounting_budget_years, accounting_transactions, working_capital, result>>

\* The transactions after the INSERT of insert_transaction: the database refuses a
\* budget_category_id that is the id of no accounting_budget row, the function catches
\* the exception and nothing is stored.
transactions_after_insert(row) ==
    IF \/ row.budget_category_id = NonNumeric
       \/ \E b \in accounting_budget : Num(b.id) = row.budget_category_id
    THEN accounting_transactions (+) SetToBag({row})
    ELSE accounting_transactions

insert_transaction(row) ==
    /\ accounting_transactions' = transactions_after_insert(row)
    /\ UNCHANGED <<unique_budget_key, accounting_budget_years, accounting_budget, working_capital, result, runs>>

\* The transactions page saves its editor: the rows taken out of it are deleted, by id.
delete_transactions(rows) ==
    /\ rows # EmptyBag
    /\ rows \sqsubseteq accounting_transactions
    /\ accounting_transactions' = accounting_transactions (-) rows
    /\ UNCHANGED <<unique_budget_key, accounting_budget_years, accounting_budget, working_capital, result, runs>>

\* The add forms insert one row; the database gives it an id it has never given.  Ids are
\* compared for equality alone, and an id nothing holds any more is as good as one never
\* given: the model takes a number of the content of the new row, raised by 1000000
\* while a stored row or a page run that has loaded a row holds it.
insert_working_capital_entry(book_year_label, kind, kind_detail, amount) ==
    /\ LET held == {r.id : r \in BagToSet(working_capital)}
                      \cup {c.id : c \in {x \in BagToSet(runs) :
                                              x.op = "working_capital_page"}}
           kind_no == CASE kind = "AR" -> 1 [] kind = "AP" -> 2 [] OTHER -> 3
           detail_no == CASE kind_detail = "Member" -> 1 [] kind_detail = "Sponsor" -> 2
                          [] kind_detail = "Other" -> 3 [] OTHER -> 0
           base == 100000 * YearRank(book_year_label) + 10000 * kind_no
                      + 1000 * detail_no + to_numeric_fillna(amount)
           free == {i \in {base + 1000000 * k : k \in 0..Cardinality(held)} : i \notin held}
           id == CHOOSE i \in free : \A j \in free : i <= j
       IN  working_capital' = working_capital (+)
              SetToBag({[id |-> id, book_year_label |-> book_year_label, kind |-> kind,
                         kind_detail |-> kind_detail, amount |-> amount]})
    /\ UNCHANGED <<unique_budget_key, accounting_budget_years, accounting_budget, accounting_transactions,
                   result, runs>>

\* "Mark fulfilled" and the inventory editor delete one row by id.
delete_working_capital_entry(id) ==
    /\ working_capital' =
          working_capital (-) SetToBag({r \in BagToSet(working_capital) : r.id = id})
    /\ UNCHANGED <<unique_budget_key, accounting_budget_years, accounting_budget, accounting_transactions,
                   result, runs>>

\* The table after the UPDATE of update_working_capital_entry: the row of the id, when
\* it is still there, takes the amount.
update_working_capital_entry(id, amount) ==
    LET hit == {r \in BagToSet(working_capital) : r.id = id}
    IN  (working_capital (-) SetToBag(hit))
            (+) SetToBag({[r EXCEPT !.amount = Num(amount)] : r \in hit})

-----------------------------------------------------------------------------
(* The calculator calls, request by request *)

\* calculate_budget_metrics is entered: without a year_label it returns the zeros at
\* once, with one it goes on to its first request.
BudgetMetricsPage(year_label) ==
    /\ result = NoResult
    /\ result' = IF Falsy(year_label)
                 THEN [op |-> "calculate_budget_metrics", pc |-> "done",
                       year_label |-> year_label,
                       value |-> calculate_budget_metrics_on(year_label, 0, 0, <<>>)]
                 ELSE [op |-> "calculate_budget_metrics", pc |-> "get_opening_cash",
                       year_label |-> year_label]
    /\ UNCHANGED <<unique_budget_key, store, runs>>

\* calculate_working_capital_metrics is entered.
WorkingCapitalPage(year_label) ==
    /\ result = NoResult
    /\ result' = [op |-> "calculate_working_capital_metrics",
                  pc |-> "load_working_capital_AR", year_label |-> year_label]
    /\ UNCHANGED <<unique_budget_key, store, runs>>

\* calculate_dashboard_data is entered.
DashboardPage(year_label, period_filter) ==
    /\ result = NoResult
    /\ result' = [op |-> "calculate_dashboard_data", pc |-> "fetch_budget_entries",
                  year_label |-> year_label, period_filter |-> period_filter]
    /\ UNCHANGED <<unique_budget_key, store, runs>>

\* calculate_cash_flow_evolution is entered, on the day today.
CashFlowCall(year_label, today) ==
    /\ result = NoResult
    /\ result' = [op |-> "calculate_cash_flow_evolution", pc |-> "get_opening_cash",
                  year_label |-> year_label, today |-> today]
    /\ UNCHANGED <<unique_budget_key, store, runs>>

\* calculate_current_cash_position is entered, and enters calculate_cash_flow_evolution.
CashPositionCall(year_label, today) ==
    /\ result = NoResult
    /\ result' = [op |-> "calculate_current_cash_position", pc |-> "get_opening_cash",
                  year_label |-> year_label, today |-> today]
    /\ UNCHANGED <<unique_budget_key, store, runs>>

\* calculate_cash_position_with_nwc is entered, and enters calculate_current_cash_position.
CashWithNwcCall(year_label, today) ==
    /\ result = NoResult
    /\ result' = [op |-> "calculate_cash_position_with_nwc", pc |-> "get_opening_cash",
                  year_label |-> year_label, today |-> today]
    /\ UNCHANGED <<unique_budget_key, store, runs>>

\* The get_opening_cash request of the call returns.
get_opening_cash_returns ==
    /\ result.pc = "get_opening_cash"
    /\ result' = [pc |-> IF result.op = "calculate_budget_metrics" THEN "get_savings"
                         ELSE "fetch_transactions",
                  opening_cash |-> get_opening_cash(result.year_label)] @@ result
    /\ UNCHANGED <<unique_budget_key, store, runs>>

\* The get_savings request of the call returns.
get_savings_returns ==
    /\ result.pc = "get_savings"
    /\ result' = [pc |-> "fetch_budget_entries",
                  savings |-> get_savings(result.year_label)] @@ result
    /\ UNCHANGED <<unique_budget_key, store, runs>>

\* The fetch_budget_entries request returns: the budget metrics are complete; the
\* dashboard returns its empty frame, or keeps the entries the period filter selects and
\* goes on to the transactions.
fetch_budget_entries_returns ==
    /\ result.pc = "fetch_budget_entries"
    /\ LET budget_df == fetch_budget_entries(result.year_label)
           call == [op |-> result.op, year_label |-> result.year_label]
       IN  result' =
             IF result.op = "calculate_budget_metrics"
             THEN [pc |-> "done",
                   value |-> calculate_budget_metrics_on(result.year_label,
                                 result.opening_cash, result.savings, budget_df)] @@ call
             ELSE IF empty_before_transactions(budget_df, result.period_filter)
             THEN [pc |-> "done", period_filter |-> result.period_filter]
                      @@ EmptyDashboard @@ call
             ELSE [pc |-> "fetch_transactions",
                   budget_df |-> filter_budget(budget_df, result.period_filter)] @@ result
    /\ UNCHANGED <<unique_budget_key, store, runs>>

\* The call r goes on, fetch_transactions_with_categories being over with txn_df.  A call
\* that is over keeps what it returned, not the frames it had fetched.
after_transactions(r, txn_df) ==
    LET call == [op |-> r.op, pc |-> "done", year_label |-> r.year_label]
        cash_flow_df == calculate_cash_flow_evolution_on(r.opening_cash, txn_df, r.today)
        current_cash == calculate_current_cash_position_on(r.year_label, cash_flow_df)
    IN  CASE r.op = "calculate_dashboard_data" ->
               calculate_dashboard_data_on(r.budget_df, txn_df)
                   @@ [period_filter |-> r.period_filter] @@ call
          [] r.op = "calculate_cash_flow_evolution" ->
               cash_flow_df @@ [today |-> r.today] @@ call
          [] r.op = "calculate_current_cash_position" ->
               current_cash @@ [today |-> r.today] @@ call
          [] r.op = "calculate_cash_position_with_nwc" ->
               IF current_cash.outcome # "returned"
               THEN [outcome |-> current_cash.outcome, today |-> r.today] @@ call
               ELSE [op |-> r.op, pc |-> "load_working_capital_AR",
                     year_label |-> r.year_label, today |-> r.today,
                     current_cash |-> current_cash.value]

\* The fetch_transactions request returns: st.stop() on no row at all, else the rows of
\* the year are kept.
fetch_transactions_returns ==
    /\ result.pc = "fetch_transactions"
    /\ LET rows == fetch_transactions
       IN  result' = IF rows = EmptyBag THEN after_transactions(result, Stopped)
                     ELSE [pc |-> "fetch_categories_df",
                           transaction_df |-> transactions_of_year(result.year_label, rows)]
                              @@ result
    /\ UNCHANGED <<unique_budget_key, store, runs>>

\* A fetch_categories_df that also writes the cash position back as the opening cash.
fetch_categories_df_returns_storing ==
    /\ result.pc = "fetch_categories_df"
    /\ result' = after_transactions(result,
                     fetch_transactions_with_categories_on(
                         result.transaction_df, fetch_categories_df(result.year_label)))
    /\ accounting_budget_years' =
          {IF /\ r.year_label = result.year_label
              /\ result.op = "calculate_current_cash_position"
              /\ result'.outcome = "returned"
           THEN [r EXCEPT !.opening_cash = Num(result'.value)] ELSE r
             : r \in accounting_budget_years}
    /\ UNCHANGED <<unique_budget_key, accounting_budget, accounting_transactions, working_capital, runs>>

\* The fetch_categories_df request returns, and with it fetch_transactions_with_categories.
fetch_categories_df_returns ==
    /\ result.pc = "fetch_categories_df"
    /\ result' = after_transactions(result,
                     fetch_transactions_with_categories_on(
                         result.transaction_df, fetch_categories_df(result.year_label)))
    /\ UNCHANGED <<unique_budget_key, store, runs>>

\* The load_working_capital call for the receivables returns.
load_working_capital_AR_returns ==
    /\ result.pc = "load_working_capital_AR"
    /\ result' = [pc |-> "load_working_capital_AP",
                  ar |-> ar_totals(load_working_capital(result.year_label, "AR"))]
                    @@ result
    /\ UNCHANGED <<unique_budget_key, store, runs>>

\* The load_working_capital call for the payables returns.
load_working_capital_AP_returns ==
    /\ result.pc = "load_working_capital_AP"
    /\ result' = [pc |-> "load_working_capital_INVENTORY",
                  total_ap |-> total_amount(load_working_capital(result.year_label, "AP"))]
                    @@ result
    /\ UNCHANGED <<unique_budget_key, store, runs>>

\* The load_working_capital call for the inventory returns: the metrics are complete.
load_working_capital_INVENTORY_returns ==
    /\ result.pc = "load_working_capital_INVENTORY"
    /\ LET inv_df == load_working_capital(inventory_book_year(result.year_label),
                                          "INVENTORY")
           wc_metrics == calculate_working_capital_metrics_on(result.ar, result.total_ap,
                                                              total_amount(inv_df))
           call == [op |-> result.op, pc |-> "done", year_label |-> result.year_label]
       IN  result' = IF result.op = "calculate_working_capital_metrics"
                     THEN [value |-> wc_metrics] @@ call
                     ELSE calculate_cash_position_with_nwc_on(result.current_cash,
                                                              wc_metrics)
                              @@ [today |-> result.today] @@ call
    /\ UNCHANGED <<unique_budget_key, store, runs>>

-----------------------------------------------------------------------------
(* The budget page and its metrics *)

\* fetch_budget_year_labels: nothing without a budget year, else the empty choice and the
\* labels.
fetch_budget_year_labels ==
    IF accounting_budget_years = {} THEN {}
    ELSE {""} \cup {r.year_label : r \in accounting_budget_years}

\* The types the forms of the budget page offer.
CATEGORY_TYPES == {"income", "year", "semester1", "semester2"}

\* A run of the budget page begins, in any session and whatever else is in flight: the
\* year labels are read, the page stops without a budget year, and the current year is
\* one of the year choices.
BudgetPageYears(current_year) ==
    /\ BagCardinality(runs) < MaxRuns
    /\ fetch_budget_year_labels # {}
    /\ current_year \in fetch_budget_year_labels
    /\ runs' = Started([op |-> "budget_page", pc |-> "years", current_year |-> current_year,
                        years |-> fetch_budget_year_labels])
    /\ UNCHANGED <<unique_budget_key, store, result>>

\* The add-category form is submitted: the year is one of the year choices the run has
\* read, the name is stripped and must not be empty.  The run writes nothing after it.
AddCategoryForm(new_year, new_name, new_type, new_amount) ==
    \E run \in BagToSet(runs) :
    /\ run.op = "budget_page" /\ run.pc = "years"
    /\ new_year \in run.years
    /\ new_type \in CATEGORY_TYPES
    /\ ~Falsy(strip(new_name))
    /\ accounting_budget' = budget_after_add(new_year, strip(new_name), new_type, new_amount)
    /\ runs' = Ended(run)
    /\ UNCHANGED <<unique_budget_key, accounting_budget_years, accounting_transactions, working_capital, result>>

\* The type of the first of the year's entries that carry the name.
original_type(entries, selected_name) ==
    LET i == CHOOSE k \in 1..Len(entries) :
                 /\ entries[k].category_name = selected_name
                 /\ \A j \in 1..(k - 1) : entries[j].category_name # selected_name
    IN  entries[i].budget_type

\* The run reads the entries of the current year.  Without one it goes on to the opening
\* cash; with some, a name is selected and its first type taken, and the run dies on a
\* type the edit form does not offer (CATEGORY_TYPES.index raises).
BudgetPageEntries(selected_name) ==
    \E run \in BagToSet(runs) :
    /\ run.op = "budget_page" /\ run.pc = "years"
    /\ LET entries == fetch_budget_entries(run.current_year)
       IN  IF entries = <<>>
           THEN /\ selected_name = NULL
                /\ runs' = Moved(run, [op |-> "budget_page", pc |-> "entries",
                                       current_year |-> run.current_year,
                                       selected_name |-> NULL, original_type |-> NULL])
           ELSE /\ \E k \in 1..Len(entries) : entries[k].category_name = selected_name
                /\ runs' = IF original_type(entries, selected_name) \in CATEGORY_TYPES
                           THEN Moved(run, [op |-> "budget_page", pc |-> "entries",
                                            current_year |-> run.current_year,
                                            selected_name |-> selected_name,
                                            original_type |->
                                                original_type(entries, selected_name)])
                           ELSE Ended(run)
    /\ UNCHANGED <<unique_budget_key, store, result>>

\* "Save changes" by a run that has selected the category selected_name:
\* update_budget_category is entered with the name and type the run has read.
SaveChanges(selected_name, edit_name, edit_type, edit_amount) ==
    \E run \in BagToSet(runs) :
    /\ run.op = "budget_page" /\ run.pc = "entries"
    /\ run.selected_name # NULL /\ run.selected_name = selected_name
    /\ edit_type \in CATEGORY_TYPES
    /\ ~Falsy(strip(edit_name))
    /\ ~Falsy(run.current_year)
    /\ runs' = Moved(run, update_call(run.current_year, run.selected_name, strip(edit_name),
                                      run.original_type, edit_type, edit_amount))
    /\ UNCHANGED <<unique_budget_key, store, result>>

\* "Delete category" on the category selected: every type of the name.
DeleteCategory ==
    \E run \in BagToSet(runs) :
    /\ run.op = "budget_page" /\ run.pc = "entries"
    /\ run.selected_name # NULL
    /\ accounting_budget' = budget_after_delete(run.current_year, run.selected_name, NULL)
    /\ runs' = Ended(run)
    /\ UNCHANGED <<unique_budget_key, accounting_budget_years, accounting_transactions, working_capital, result>>

\* A run that has come past the edit section reads the opening cash of the current year.
BudgetPageOpeningCash ==
    \E run \in BagToSet(runs) :
    /\ run.op = "budget_page" /\ run.pc = "entries"
    /\ runs' = Moved(run, [op |-> "budget_page", pc |-> "opening_cash",
                           current_year |-> run.current_year,
                           current_opening |-> get_opening_cash(run.current_year)])
    /\ UNCHANGED <<unique_budget_key, store, result>>

\* "Save" of the opening cash: cash_val is the number typed into the input, <<n>>, or,
\* with nothing typed, <<>>, the opening cash the run has read, which the input shows.
SaveOpeningCash(typed) ==
    \E run \in BagToSet(runs) :
    /\ run.op = "budget_page" /\ run.pc = "opening_cash"
    /\ LET cash_val == IF typed = <<>> THEN run.current_opening ELSE typed[1]
       IN  accounting_budget_years' =
              years_after_update_opening_cash(run.current_year, cash_val)
    /\ runs' = Ended(run)
    /\ UNCHANGED <<unique_budget_key, accounting_budget, accounting_transactions, working_capital, result>>

\* A page run ends with no button pressed, or stopped on its way.
PageRunEnds ==
    \E run \in BagToSet(runs) :
    /\ run.op \in {"budget_page", "insert_page", "working_capital_page"}
    /\ runs' = Ended(run)
    /\ UNCHANGED <<unique_budget_key, store, result>>

\* The year the user of the budget page works on.
BudgetPageYearInputs == {"2025-26"}

OpeningCashInputs == {50}
SavingsInputs == {30}
\* The cash_val the opening cash is saved with.
OpeningCashUpdates == {0}

\* <<new_year, new_name, new_type, new_amount>> the add-category form is submitted with.
BudgetInputs ==
    { <<"2025-26", "Dues", "income", 1000>>,
      <<"2025-26", "Food", "semester1", 200>>,
      <<"2025-26", "Food ", "semester2", 150>>,
      <<"2025-26", "Rent", "year", 100>> }

\* A row of a type the forms do not offer: add_budget_category takes any budget_type,
\* from a caller that is not the form.
OtherTypeInputs == { <<"2025-26", "Misc", "quarter", 70>> }

\* <<selected_name, edit_name, edit_type, edit_amount>> the edit form is saved with.
BudgetEdits == { <<"Rent", "Gala", "semester1", 25>> }

\* Sessions on the budget page, MaxRuns of them at one time, the one that calls the
\* calculator counted.
NextBudget ==
    \/ \E y \in YearLabels, oc \in OpeningCashInputs, s \in SavingsInputs :
          create_budget_year(y, Num(oc), Num(s))
    \/ \E y \in BudgetPageYearInputs :
          /\ BagCardinality(runs) + (IF result = NoResult THEN 0 ELSE 1) < MaxRuns
          /\ BudgetPageYears(y)
    \/ \E p \in BudgetInputs :
          /\ Cardinality(accounting_budget) < MaxBudgetRows
          /\ AddCategoryForm(p[1], p[2], p[3], p[4])
    \/ \E n \in {NULL} \cup {e[1] : e \in BudgetEdits} : BudgetPageEntries(n)
    \/ \E e \in BudgetEdits :
          SaveChanges(e[1], e[2], e[3], e[4])
    \/ update_category_name
    \/ update_budget_type
    \/ update_budget
    \/ DeleteCategory
    \/ BudgetPageOpeningCash
    \/ \E a \in {<<>>} \cup {<<v>> : v \in OpeningCashUpdates} : SaveOpeningCash(a)
    \/ PageRunEnds
    \/ \E p \in OtherTypeInputs :
          /\ Cardinality(accounting_budget) < MaxBudgetRows
          /\ p[1] \in fetch_budget_year_labels
          /\ add_budget_category(p[1], p[2], p[3], p[4])
    \/ \E y \in YearInputs : BagCardinality(runs) < MaxRuns /\ BudgetMetricsPage(y)
    \/ get_opening_cash_returns
    \/ get_savings_returns
    \/ fetch_budget_entries_returns
    \/ EndOfRun

SpecBudget == Init /\ [][NextBudget]_vars

-----------------------------------------------------------------------------
(* The working-capital page and its metrics *)

\* <<book_year_label, kind, kind_detail, amount>> of the rows the add forms store.
WCInputs ==
    { <<"2025-26", "AR", "Member", Num(100)>>,
      <<"2025-26", "AR", "Sponsor", Num(50)>>,
      <<"2025-26", "AP", NULL, Num(80)>>,
      <<"2025-26", "INVENTORY", NULL, Num(200)>>,
      <<"2024-25", "AR", "Member", Num(10)>> }

\* <<kind, kind_detail, amount>>: the rows an edit form is saved on, and the amount it is
\* saved with.
WCEdits == { <<"AP", NULL, 50>> }

\* A run of the working-capital page, in any session and whatever else is in flight, has
\* loaded the rows of a kind and shows the edit form of one of them, with the amount
\* loaded in its Amount field.
EditFormShown(row) ==
    /\ BagCardinality(runs) < MaxRuns
    /\ BagIn(row, working_capital)
    /\ runs' = Started([op |-> "working_capital_page", pc |-> "loaded",
                        id |-> row.id, amount |-> row.amount])
    /\ UNCHANGED <<unique_budget_key, store, result>>

\* "Save changes" of the edit form: new_amount is the number typed into the field, <<n>>,
\* or, with nothing typed, <<>>, the amount the run has loaded; the row is updated by id.
SaveEntry(typed) ==
    \E run \in BagToSet(runs) :
    /\ run.op = "working_capital_page" /\ run.pc = "loaded"
    /\ LET new_amount == IF typed = <<>> THEN to_numeric_fillna(run.amount) ELSE typed[1]
       IN  working_capital' = update_working_capital_entry(run.id, new_amount)
    /\ runs' = Ended(run)
    /\ UNCHANGED <<unique_budget_key, accounting_budget_years, accounting_budget, accounting_transactions, result>>

\* Sessions on the working-capital page, MaxRuns of them at one time, the one that calls the
\* calculator counted.
NextWC ==
    \/ \E p \in WCInputs :
          /\ BagCardinality(working_capital) < MaxWCRows
          /\ Cardinality({r \in BagToSet(working_capital) :
                 <<r.book_year_label, r.kind, r.kind_detail>> = <<p[1], p[2], p[3]>>})
                < MaxCopies
          /\ insert_working_capital_entry(p[1], p[2], p[3], p[4])
    \/ \E row \in BagToSet(working_capital) : delete_working_capital_entry(row.id)
    \/ \E row \in BagToSet(working_capital), e \in WCEdits :
          /\ row.kind = e[1] /\ row.kind_detail = e[2]
          /\ BagCardinality(runs) + (IF result = NoResult THEN 0 ELSE 1) < MaxRuns
          /\ EditFormShown(row)
    \/ \E a \in {<<>>} \cup {<<e[3]>> : e \in WCEdits} : SaveEntry(a)
    \/ PageRunEnds
    \/ \E y \in YearInputs : BagCardinality(runs) < MaxRuns /\ WorkingCapitalPage(y)
    \/ load_working_capital_AR_returns
    \/ load_working_capital_AP_returns
    \/ load_working_capital_INVENTORY_returns
    \/ EndOfRun

SpecWC == Init /\ [][NextWC]_vars

\* The receivables by kind_detail.
MaxDetailRows == 3

\* <<book_year_label, kind, kind_detail, amount>> the add-receivable form stores: its
\* select box offers Member, Sponsor and Other.
ARInputs ==
    { <<"2025-26", "AR", "Member", Num(100)>>,
      <<"2025-26", "AR", "Sponsor", Num(50)>>,
      <<"2025-26", "AR", "Other", Num(40)>> }

AREdits == { <<"AR", "Member", 25>> }

\* AR rows as the table may hold them when the calculator reads it: kind_detail is one of
\* the three names, NULL as in the rows of the other kinds, or a text that is none of the
\* three.  The calculator compares the column with each name and takes what is equal.
ARRows ==
    { [id |-> 211100, book_year_label |-> "2025-26", kind |-> "AR",
       kind_detail |-> "Member", amount |-> Num(100)],
      [id |-> 212050, book_year_label |-> "2025-26", kind |-> "AR",
       kind_detail |-> "Sponsor", amount |-> Num(50)],
      [id |-> 213040, book_year_label |-> "2025-26", kind |-> "AR",
       kind_detail |-> "Other", amount |-> Num(40)],
      [id |-> 210030, book_year_label |-> "2025-26", kind |-> "AR",
       kind_detail |-> NULL, amount |-> Num(30)],
      [id |-> 210020, book_year_label |-> "2025-26", kind |-> "AR",
       kind_detail |-> "Partner", amount |-> Num(20)] }

\* The table the calculator is applied to: any few of the rows above.
InitWCDetail ==
    /\ accounting_budget_years = {}
    /\ accounting_budget = {}
    /\ accounting_transactions = EmptyBag
    /\ working_capital \in
          {SetToBag(s) : s \in {x \in SUBSET ARRows : Cardinality(x) <= MaxDetailRows}}
    /\ result = NoResult
    /\ runs = EmptyBag
    /\ unique_budget_key = TRUE

\* Sessions on the working-capital page, MaxRuns of them at one time, the one that calls the
\* calculator counted.
NextWCDetail ==
    \/ \E p \in ARInputs :
          /\ BagCardinality(working_capital) < MaxDetailRows
          /\ insert_working_capital_entry(p[1], p[2], p[3], p[4])
    \/ \E row \in BagToSet(working_capital) : delete_working_capital_entry(row.id)
    \/ \E row \in BagToSet(working_capital), e \in AREdits :
          /\ row.kind = e[1] /\ row.kind_detail = e[2]
          /\ BagCardinality(runs) + (IF result = NoResult THEN 0 ELSE 1) < MaxRuns
          /\ EditFormShown(row)
    \/ \E a \in {<<>>} \cup {<<e[3]>> : e \in AREdits} : SaveEntry(a)
    \/ PageRunEnds
    \/ \E y \in YearLabels : BagCardinality(runs) < MaxRuns /\ WorkingCapitalPage(y)
    \/ load_working_capital_AR_returns
    \/ load_working_capital_AP_returns
    \/ load_working_capital_INVENTORY_returns
    \/ EndOfRun

SpecWCDetail == InitWCDetail /\ [][NextWCDetail]_vars

-----------------------------------------------------------------------------
(* The dashboard *)

PeriodFilters == {"Everything", "Sem 1", "Sem 2", "Year Expenses"}

DashBudgetInputs ==
    { <<"2025-26", "Food", "semester1", 100>>,
      <<"2025-26", "Food", "semester2", 60>>,
      <<"2025-26", "Rent", "year", 80>>,
      <<"2025-26", "Dues", "income", 500>>,
      <<"2024-25", "Food", "semester1", 40>> }

\* <<amount, is_expense>> of the transactions the store is given.
TransactionInputs == { <<Num(20), TRUE>>, <<Num(5), FALSE>> }

\* <<year_label, budget_category_id>> of a new transaction.  insert_transaction stores the
\* row as its caller gives it: the insert page links it to a budget row of its year; a
\* caller may leave out the link, or the year and the link.
TransactionLinks ==
    {<<b.year_label, Num(b.id)>> : b \in accounting_budget}
        \cup {<<y, NonNumeric>> : y \in YearLabels \cup {NULL}}

NextDash ==
    \/ \E y \in YearLabels, oc \in OpeningCashInputs, s \in SavingsInputs :
          create_budget_year(y, Num(oc), Num(s))
    \/ \E p \in DashBudgetInputs :
          /\ Cardinality(accounting_budget) < MaxDashBudgetRows
          /\ p[1] \in fetch_budget_year_labels
          /\ add_budget_category(p[1], p[2], p[3], p[4])
    \/ \E l \in TransactionLinks, a \in TransactionInputs :
          /\ BagCardinality(accounting_transactions) < MaxTransactions
          /\ insert_transaction([year_label |-> l[1], txn_date |-> "2025-01-01",
                                 budget_category_id |-> l[2], amount |-> a[1],
                                 is_expense |-> a[2]])
    \/ \E y \in YearInputs, f \in PeriodFilters : DashboardPage(y, f)
    \/ fetch_budget_entries_returns
    \/ fetch_transactions_returns
    \/ fetch_categories_df_returns
    \/ \E rows \in SubBag(accounting_transactions) : delete_transactions(rows)
    \/ EndOfRun

SpecDash == Init /\ [][NextDash]_vars

-----------------------------------------------------------------------------
(* The dashboard over categories whose names differ in case or whitespace *)

JoinBudgetInputs ==
    { <<"2025-26", "Food", "semester1", 100>>,
      <<"2025-26", "food", "semester2", 15>> }

\* The new_name update_budget_category is called with by a caller that is not the edit
\* form: the function stores it as given.
JoinNewNames == {" Food"}

\* <<year_label, budget_category_id>> of a new transaction of the year shown: linked to a
\* budget row of the year, or left without a link.
JoinTransactionLinks ==
    {<<b.year_label, Num(b.id)>> : b \in accounting_budget} \cup {<<"2025-26", NonNumeric>>}

NextJoin ==
    \/ \E oc \in OpeningCashInputs, s \in SavingsInputs :
          create_budget_year("2025-26", Num(oc), Num(s))
    \/ \E p \in JoinBudgetInputs :
          /\ Cardinality(accounting_budget) < MaxDashBudgetRows
          /\ p[1] \in fetch_budget_year_labels
          /\ add_budget_category(p[1], p[2], p[3], p[4])
    \/ \E r \in accounting_budget, n \in JoinNewNames :
          update_budget_category(r.year_label, r.category_name, n, r.budget_type,
                                 r.budget_type, to_numeric_fillna(r.budget))
    \/ update_category_name
    \/ update_budget
    \/ \E l \in JoinTransactionLinks, a \in TransactionInputs :
          /\ BagCardinality(accounting_transactions) < MaxTransactions
          /\ insert_transaction([year_label |-> l[1], txn_date |-> "2025-01-01",
                                 budget_category_id |-> l[2], amount |-> a[1],
                                 is_expense |-> a[2]])
    \/ \E f \in PeriodFilters : DashboardPage("2025-26", f)
    \/ fetch_budget_entries_returns
    \/ fetch_transactions_returns
    \/ fetch_categories_df_returns
    \/ EndOfRun

SpecJoin == Init /\ [][NextJoin]_vars

-----------------------------------------------------------------------------
(* Cash flow evolution and current cash position over the insert pages *)

\* get_budget_category_id: the id of the one row of (year_label, category_name); no id
\* without a row, and maybe_single raises on several.
get_budget_category_id(year_label, category_name) ==
    LET rows == {b \in accounting_budget :
                    b.year_label = year_label /\ b.category_name = category_name}
    IN  IF Falsy(year_label) \/ Falsy(category_name) \/ Cardinality(rows) # 1
        THEN NonNumeric
        ELSE Num((CHOOSE b \in rows : TRUE).id)

\* fetch_categories: the names of the year's budget rows, stripped.
fetch_categories(year_label) ==
    {strip(b.category_name) :
        b \in {x \in accounting_budget : Falsy(year_label) \/ x.year_label = year_label}}

\* The row the insert page stores for a category: of the year of the budget row b and
\* linked to it.
LinkedTransaction(b, tx_date, amount, is_expense) ==
    [year_label |-> b.year_label, txn_date |-> tx_date, budget_category_id |-> Num(b.id),
     amount |-> amount, is_expense |-> is_expense]

\* A run of the insert page begins, in any session and whatever else is in flight: the
\* year labels are read, and the page stops on the empty choice.
InsertPageYears(year_label) ==
    /\ BagCardinality(runs) < MaxRuns
    /\ year_label \in fetch_budget_year_labels
    /\ year_label # ""
    /\ runs' = Started([op |-> "insert_page", pc |-> "years", year_label |-> year_label])
    /\ UNCHANGED <<unique_budget_key, store, result>>

\* The run reads the categories of the year; one of them is the category selected.
InsertPageCategories(category) ==
    \E run \in BagToSet(runs) :
    /\ run.op = "insert_page" /\ run.pc = "years"
    /\ category \in fetch_categories(run.year_label)
    /\ runs' = Moved(run, [op |-> "insert_page", pc |-> "categories",
                           year_label |-> run.year_label, category |-> category])
    /\ UNCHANGED <<unique_budget_key, store, result>>

\* "Insert" is pressed: the id of the category is looked up, and the run shows an error
\* and inserts nothing without one.
InsertPageCategoryId ==
    \E run \in BagToSet(runs) :
    /\ run.op = "insert_page" /\ run.pc = "categories"
    /\ runs' = IF get_budget_category_id(run.year_label, run.category) = NonNumeric
               THEN Ended(run)
               ELSE Moved(run, [op |-> "insert_page", pc |-> "budget_category_id",
                                year_label |-> run.year_label,
                                budget_category_id |->
                                    get_budget_category_id(run.year_label, run.category)])
    /\ UNCHANGED <<unique_budget_key, store, result>>

\* The row is inserted with the id looked up; the page shows 'Failed to insert
\* transaction.' when the database refuses it.
InsertManually(tx_date, amount, is_expense) ==
    \E run \in BagToSet(runs) :
    /\ run.op = "insert_page" /\ run.pc = "budget_category_id"
    /\ accounting_transactions' =
          transactions_after_insert([year_label |-> run.year_label, txn_date |-> tx_date,
                                     budget_category_id |-> run.budget_category_id,
                                     amount |-> amount, is_expense |-> is_expense])
    /\ runs' = Ended(run)
    /\ UNCHANGED <<unique_budget_key, accounting_budget_years, accounting_budget, working_capital, result>>

MaxCashTransactions == 3
MaxNwcRows == 2

\* The day of a call, as pd.Timestamp.now().date() gives it.
TodayInputs == {20250104, 20250105}

CashOpeningInputs == {100}
CashOpeningUpdates == {500}

CashBudgetInputs ==
    { <<"2025-26", "Food", "semester1", 100>>,
      <<"2024-25", "Food", "semester1", 40>> }

\* <<tx_date, amount, is_expense>> of the insert form.
CashTransactionInputs ==
    { <<"2025-01-02", Num(50), FALSE>>,
      <<"2025-01-03", Num(50), FALSE>>,
      <<"2025-01-03", Num(30), TRUE>> }

NextCash ==
    \/ \E y \in YearLabels, oc \in CashOpeningInputs, sv \in SavingsInputs :
          create_budget_year(y, Num(oc), Num(sv))
    \/ \E y \in YearLabels, a \in CashOpeningUpdates : update_opening_cash(y, a)
    \/ \E p \in CashBudgetInputs :
          /\ p[1] \in fetch_budget_year_labels
          /\ add_budget_category(p[1], p[2], p[3], p[4])
    \/ \E b \in accounting_budget, t \in CashTransactionInputs :
          /\ BagCardinality(accounting_transactions) < MaxCashTransactions
          /\ insert_transaction(LinkedTransaction(b, t[1], t[2], t[3]))
    \/ \E y \in YearInputs, d \in TodayInputs : CashFlowCall(y, d)
    \/ \E y \in YearInputs, d \in TodayInputs : CashPositionCall(y, d)
    \/ get_opening_cash_returns
    \/ fetch_transactions_returns
    \/ fetch_categories_df_returns
    \/ \E rows \in SubBag(accounting_transactions) : delete_transactions(rows)
    \/ EndOfRun

SpecCash == Init /\ [][NextCash]_vars

\* <<book_year_label, kind, kind_detail, amount>>
NwcWCInputs ==
    { <<"2025-26", "AR", "Member", Num(100)>>,
      <<"2025-26", "AP", NULL, Num(80)>>,
      <<"2024-25", "INVENTORY", NULL, Num(60)>> }

NwcTransactionInputs ==
    { <<"2025-01-02", Num(50), FALSE>>,
      <<"2025-01-03", Num(30), TRUE>> }

NextCashNwc ==
    \/ \E y \in YearLabels, oc \in CashOpeningInputs, sv \in SavingsInputs :
          create_budget_year(y, Num(oc), Num(sv))
    \/ \E p \in CashBudgetInputs :
          /\ p[1] \in fetch_budget_year_labels
          /\ add_budget_category(p[1], p[2], p[3], p[4])
    \/ \E b \in accounting_budget, t \in NwcTransactionInputs :
          /\ BagCardinality(accounting_transactions) < MaxTransactions
          /\ insert_transaction(LinkedTransaction(b, t[1], t[2], t[3]))
    \/ \E p \in NwcWCInputs :
          /\ BagCardinality(working_capital) < MaxNwcRows
          /\ insert_working_capital_entry(p[1], p[2], p[3], p[4])
    \/ \E y \in YearInputs, d \in TodayInputs : CashWithNwcCall(y, d)
    \/ get_opening_cash_returns
    \/ fetch_transactions_returns
    \/ fetch_categories_df_returns
    \/ load_working_capital_AR_returns
    \/ load_working_capital_AP_returns
    \/ load_working_capital_INVENTORY_returns
    \/ \E row \in BagToSet(working_capital) : delete_working_capital_entry(row.id)
    \/ \E rows \in SubBag(accounting_transactions) : delete_transactions(rows)
    \/ EndOfRun

SpecCashNwc == Init /\ [][NextCashNwc]_vars

-----------------------------------------------------------------------------
(* The six calculators over one store *)

NextCore ==
    \/ \E y \in YearLabels, oc \in CashOpeningInputs, sv \in SavingsInputs :
          create_budget_year(y, Num(oc), Num(sv))
    \/ \E p \in CashBudgetInputs :
          /\ p[1] \in fetch_budget_year_labels
          /\ add_budget_category(p[1], p[2], p[3], p[4])
    \/ \E b \in accounting_budget, t \in NwcTransactionInputs :
          /\ BagCardinality(accounting_transactions) < MaxTransactions
          /\ insert_transaction(LinkedTransaction(b, t[1], t[2], t[3]))
    \/ \E p \in NwcWCInputs :
          /\ BagCardinality(working_capital) < MaxNwcRows
          /\ insert_working_capital_entry(p[1], p[2], p[3], p[4])
    \/ \E y \in YearInputs : BudgetMetricsPage(y)
    \/ \E y \in YearInputs : WorkingCapitalPage(y)
    \/ \E y \in YearInputs, f \in PeriodFilters : DashboardPage(y, f)
    \/ \E y \in YearInputs, d \in TodayInputs : CashFlowCall(y, d)
    \/ \E y \in YearInputs, d \in TodayInputs : CashPositionCall(y, d)
    \/ \E y \in YearInputs, d \in TodayInputs : CashWithNwcCall(y, d)
    \/ get_opening_cash_returns
    \/ get_savings_returns
    \/ fetch_budget_entries_returns
    \/ fetch_transactions_returns
    \/ fetch_categories_df_returns
    \/ load_working_capital_AR_returns
    \/ load_working_capital_AP_returns
    \/ load_working_capital_INVENTORY_returns
    \/ \E row \in BagToSet(working_capital) : delete_working_capital_entry(row.id)
    \/ \E rows \in SubBag(accounting_transactions) : delete_transactions(rows)
    \/ EndOfRun

SpecCore == Init /\ [][NextCore]_vars

-----------------------------------------------------------------------------
(* Properties of the budget metrics *)

\* The sum of the budget cells (non-numeric as 0) of a set of accounting_budget rows.
RECURSIVE BudgetTotal(_)
BudgetTotal(rows) ==
    IF rows = {} THEN 0
    ELSE LET r == CHOOSE x \in rows : TRUE
         IN  to_numeric_fillna(r.budget) + BudgetTotal(rows \ {r})

EntriesOfType(year_label, budget_type) ==
    {r \in accounting_budget : r.year_label = year_label /\ r.budget_type = budget_type}

\* A call of calculate_budget_metrics is over and its record is shown.
BudgetMetricsShown == result.op = "calculate_budget_metrics" /\ result.pc = "done"

\* The record shown is the one of the store as it is: no write since the call began has
\* changed what the call gives.
BudgetMetricsCurrent ==
    BudgetMetricsShown /\ result.value = calculate_budget_metrics(result.year_label)

\* C1: for a non-empty year_label the returned record has
\* total_expenses_all = sem1 + sem2 + year and
\* free_float = opening_cash + total_income - total_expenses_all - savings.
C1_BudgetIdentities ==
    (BudgetMetricsShown /\ ~Falsy(result.year_label)) =>
        LET m == result.value
        IN  /\ m.total_expenses_all =
                  m.total_expenses_sem1 + m.total_expenses_sem2 + m.total_expenses_year
            /\ m.free_float =
                  m.opening_cash + m.total_income - m.total_expenses_all - m.savings

\* Scenario A: income 1000, semester1 200, semester2 150, year 100, opening cash 50,
\* savings 30 give free_float 570.
C1_Witness ==
    /\ BudgetMetricsShown /\ result.year_label = "2025-26"
    /\ result.value.total_income = 1000 /\ result.value.total_expenses_sem1 = 200
    /\ result.value.total_expenses_sem2 = 150 /\ result.value.total_expenses_year = 100
    /\ result.value.opening_cash = 50 /\ result.value.savings = 30
    /\ result.value.total_expenses_all = 450 /\ result.value.free_float = 570

\* C2: each total is the sum over exactly the year's entries of its budget_type, and
\* every field is determined by the entries of the four known types (with the year's
\* opening cash and savings), so an entry of any other type changes no field.
C2_TotalsByType ==
    (BudgetMetricsCurrent /\ ~Falsy(result.year_label)) =>
        LET m == result.value
            y == result.year_label
            income == BudgetTotal(EntriesOfType(y, "income"))
            s1 == BudgetTotal(EntriesOfType(y, "semester1"))
            s2 == BudgetTotal(EntriesOfType(y, "semester2"))
            yr == BudgetTotal(EntriesOfType(y, "year"))
        IN  /\ m.total_income = income
            /\ m.total_expenses_sem1 = s1
            /\ m.total_expenses_sem2 = s2
            /\ m.total_expenses_year = yr
            /\ m.total_expenses_all = s1 + s2 + yr
            /\ m.opening_cash = get_opening_cash(y)
            /\ m.savings = get_savings(y)
            /\ m.free_float = get_opening_cash(y) + income - (s1 + s2 + yr) - get_savings(y)

\* The year holds an entry of an unknown type next to entries of known types.
C2_Witness ==
    /\ BudgetMetricsCurrent /\ result.year_label = "2025-26"
    /\ \E r \in accounting_budget :
          /\ r.year_label = "2025-26"
          /\ r.budget_type \notin {"income", "semester1", "semester2", "year"}
          /\ to_numeric_fillna(r.budget) # 0
    /\ Cardinality(EntriesOfType("2025-26", "semester1")) = 2
    /\ result.value.total_expenses_sem1 = 225
    /\ result.value.total_expenses_all = 225

AllZeroBudgetMetrics(m) ==
    /\ m.opening_cash = 0 /\ m.total_income = 0
    /\ m.total_expenses_sem1 = 0 /\ m.total_expenses_sem2 = 0
    /\ m.total_expenses_year = 0 /\ m.total_expenses_all = 0
    /\ m.savings = 0 /\ m.free_float = 0

\* C3: with an empty or unset year_label all eight fields are 0, whatever the store holds.
C3_EmptyYearAllZero ==
    (BudgetMetricsShown /\ Falsy(result.year_label)) =>
        /\ DOMAIN result.value = {"opening_cash", "total_income", "total_expenses_sem1",
                                  "total_expenses_sem2", "total_expenses_year",
                                  "total_expenses_all", "savings", "free_float"}
        /\ AllZeroBudgetMetrics(result.value)

\* The store holds budget years with cash and entries with budgets, and the call had no year.
C3_Witness ==
    /\ BudgetMetricsShown /\ result.year_label = NULL
    /\ \E r \in accounting_budget_years : to_numeric_fillna(r.opening_cash) > 0
    /\ \E r \in accounting_budget : r.budget_type = "income" /\ to_numeric_fillna(r.budget) > 0

YearAbsent(year_label) ==
    /\ \A r \in accounting_budget_years : r.year_label # year_label
    /\ \A r \in accounting_budget : r.year_label # year_label

\* C4: for a year_label with no budget-year row and no budget entries every field is 0.
C4_AbsentYearAllZero ==
    (BudgetMetricsShown /\ ~Falsy(result.year_label) /\ YearAbsent(result.year_label)) =>
        AllZeroBudgetMetrics(result.value)

\* The store holds another year with cash and entries; the year asked for is absent.
C4_Witness ==
    /\ BudgetMetricsShown /\ result.year_label = "2024-25"
    /\ YearAbsent("2024-25")
    /\ \E r \in accounting_budget_years : to_numeric_fillna(r.opening_cash) > 0
    /\ accounting_budget # {}

-----------------------------------------------------------------------------
(* Properties of the working-capital metrics *)

\* The sum of the amounts of the stored rows that satisfy keep, row by row.
RECURSIVE AmountTotal(_, _)
AmountTotal(rows, table) ==
    IF rows = {} THEN 0
    ELSE LET r == CHOOSE x \in rows : TRUE
         IN  CopiesIn(r, table) * to_numeric_fillna(r.amount) + AmountTotal(rows \ {r}, table)

\* The stored rows of a kind, of the book year when one is given.
StoredWC(kind, year_label) ==
    {r \in BagToSet(working_capital) :
        /\ r.kind = kind
        /\ Falsy(year_label) \/ r.book_year_label = year_label}

\* A call of calculate_working_capital_metrics is over and its record is shown.
WCMetricsShown == result.op = "calculate_working_capital_metrics" /\ result.pc = "done"

\* The record shown is the one of the store as it is: no write since the call began has
\* changed what the call gives.
WCMetricsCurrent ==
    WCMetricsShown /\ result.value = calculate_working_capital_metrics(result.year_label)

\* C5: nwc = total_ar + total_inventory - total_ap, the three totals being the sums of
\* the fetched AR, AP and INVENTORY amounts; without inventory nwc = total_ar - total_ap.
C5_NwcIdentity ==
    WCMetricsCurrent =>
        LET m == result.value
            y == result.year_label
        IN  /\ m.total_ar = AmountTotal(StoredWC("AR", y), working_capital)
            /\ m.total_ap = AmountTotal(StoredWC("AP", y), working_capital)
            /\ m.total_inventory = AmountTotal(StoredWC("INVENTORY", NULL), working_capital)
            /\ m.nwc = m.total_ar + m.total_inventory - m.total_ap
            /\ StoredWC("INVENTORY", NULL) = {} => m.nwc = m.total_ar - m.total_ap

\* Scenario C: AR 100 and 50, AP 80, inventory 200 give 150, 80, 200 and nwc 270.
C5_Witness ==
    /\ WCMetricsCurrent /\ result.year_label = "2025-26"
    /\ result.value.total_ar = 150 /\ result.value.total_ap = 80
    /\ result.value.total_inventory = 200 /\ result.value.nwc = 270

\* C6: total_inventory is the sum of all stored inventory rows, whatever their
\* book_year_label, and so is the same for every year_label on the same store.
C6_InventoryYearIndependent ==
    WCMetricsCurrent =>
        /\ result.value.total_inventory =
              AmountTotal({r \in BagToSet(working_capital) : r.kind = "INVENTORY"},
                          working_capital)
        /\ \A y \in YearInputs :
              calculate_working_capital_metrics(y).total_inventory =
                  result.value.total_inventory

\* Inventory stored under book year 2025-26 is counted in the metrics of 2024-25.
C6_Witness ==
    /\ WCMetricsCurrent /\ result.year_label = "2024-25"
    /\ \A r \in BagToSet(working_capital) :
          r.kind = "INVENTORY" => r.book_year_label = "2025-26"
    /\ result.value.total_inventory = 200

ARBuckets == {"Member", "Sponsor", "Other"}

StoredAR(year_label, details) ==
    {r \in StoredWC("AR", year_label) : r.kind_detail \in details}

\* C7: the three AR buckets sum exactly the AR rows of their kind_detail; an AR row with
\* a missing or other kind_detail is in total_ar and in no bucket.
C7_ARBreakdown ==
    WCMetricsCurrent =>
        LET m == result.value
            y == result.year_label
            unnamed == {r \in StoredWC("AR", y) : r.kind_detail \notin ARBuckets}
        IN  /\ m.total_ar_member = AmountTotal(StoredAR(y, {"Member"}), working_capital)
            /\ m.total_ar_sponsor = AmountTotal(StoredAR(y, {"Sponsor"}), working_capital)
            /\ m.total_ar_other = AmountTotal(StoredAR(y, {"Other"}), working_capital)
            /\ m.total_ar - (m.total_ar_member + m.total_ar_sponsor + m.total_ar_other)
                  = AmountTotal(unnamed, working_capital)

\* AR rows with a NULL kind_detail (30) and with kind_detail Partner (20) beside a Member row.
C7_Witness ==
    /\ WCMetricsCurrent /\ result.year_label = "2025-26"
    /\ \E r \in StoredWC("AR", "2025-26") : r.kind_detail = NULL
    /\ \E r \in StoredWC("AR", "2025-26") : r.kind_detail = "Partner"
    /\ result.value.total_ar_member = 100
    /\ result.value.total_ar_other = 0
    /\ result.value.total_ar = 150

-----------------------------------------------------------------------------
(* Properties of the dashboard *)

\* A call of calculate_dashboard_data is over and what it gave is shown.
DashboardShown == result.op = "calculate_dashboard_data" /\ result.pc = "done"

\* What is shown is what the call gives on the store as it is: no write since the call
\* began has changed it.
DashboardCurrent ==
    /\ DashboardShown
    /\ LET again == calculate_dashboard_data(result.year_label, result.period_filter)
       IN  /\ result.outcome = again.outcome
           /\ result.value = again.value
           /\ result.fetched_transactions = again.fetched_transactions

DashboardReturned == DashboardCurrent /\ result.outcome = "returned"

\* The budget types a period filter selects.
SelectedTypes(period_filter) ==
    CASE period_filter = "Sem 1" -> {"semester1"}
      [] period_filter = "Sem 2" -> {"semester2"}
      [] period_filter = "Year Expenses" -> {"year"}
      [] period_filter = "Everything" -> {"semester1", "semester2", "year"}

SelectedEntries(year_label, period_filter) ==
    {e \in accounting_budget :
        e.year_label = year_label /\ e.budget_type \in SelectedTypes(period_filter)}

\* C8: the output holds exactly the year's entries the period filter selects (Sem 1:
\* semester1, Sem 2: semester2, Year Expenses: year, Everything: the three), one row
\* each, and never a row of budget_type income.
C8_PeriodFilter ==
    DashboardReturned =>
        LET rows == result.value
            kept == SelectedEntries(result.year_label, result.period_filter)
        IN  /\ Len(rows) = Cardinality(kept)
            /\ {<<rows[i].category, rows[i].budget_type, rows[i].budget>> : i \in 1..Len(rows)}
                  = {<<e.category_name, e.budget_type, to_numeric_fillna(e.budget)>> : e \in kept}
            /\ \A i \in 1..Len(rows) : rows[i].budget_type # "income"

\* Everything on a year holding a semester1, a year and an income entry keeps the two
\* expense entries.
C8_Witness ==
    /\ DashboardReturned /\ result.year_label = "2025-26"
    /\ result.period_filter = "Everything"
    /\ \E e \in accounting_budget : e.year_label = "2025-26" /\ e.budget_type = "income"
    /\ Len(result.value) = 2
    /\ {result.value[i].budget_type : i \in 1..2} = {"semester1", "year"}

\* C9: when the year has no budget entry, or none that the period filter selects, the
\* call returns an empty sequence and has not fetched the transactions.
C9_EmptyWithoutTransactions ==
    (DashboardCurrent /\ SelectedEntries(result.year_label, result.period_filter) = {}) =>
        /\ result.outcome = "returned"
        /\ result.value = <<>>
        /\ ~result.fetched_transactions

\* The year has entries, none of them selected, and the store holds no transaction at all
\* (where fetching the transactions would have ended the script).
C9_Witness ==
    /\ DashboardCurrent /\ result.year_label = "2025-26" /\ result.period_filter = "Sem 2"
    /\ \E e \in accounting_budget : e.year_label = "2025-26"
    /\ accounting_transactions = EmptyBag
    /\ result.outcome = "returned" /\ result.value = <<>>

\* The category a transaction shows under in the year: the name of the year's budget row
\* it is linked to, Uncategorized without one.
ResolvedCategory(t, year_label) ==
    LET linked == {b \in accounting_budget :
                      b.year_label = year_label /\ Num(b.id) = t.budget_category_id}
    IN  IF linked = {} THEN "Uncategorized" ELSE (CHOOSE b \in linked : TRUE).category_name

RECURSIVE SignedTotal(_)
SignedTotal(txns) ==
    IF txns = {} THEN 0
    ELSE LET t == CHOOSE x \in txns : TRUE
             signed == IF t.is_expense THEN to_numeric_fillna(t.amount)
                       ELSE 0 - to_numeric_fillna(t.amount)
         IN  CopiesIn(t, accounting_transactions) * signed + SignedTotal(txns \ {t})

\* C10: every output row's net_spending is the sum, over the year's transactions of the
\* row's category, of +amount for an expense and -amount otherwise.
C10_NetSpending ==
    DashboardReturned =>
        \A i \in 1..Len(result.value) :
            result.value[i].net_spending =
                SignedTotal({t \in BagToSet(accounting_transactions) :
                                /\ t.year_label = result.year_label
                                /\ ResolvedCategory(t, result.year_label)
                                      = result.value[i].category})

\* Scenario B: an expense of 20 and an income of 5 on Food against a semester1 budget of
\* 100 give net_spending 15 and remaining 85 under Sem 1.
C10_Witness ==
    /\ DashboardReturned /\ result.year_label = "2025-26" /\ result.period_filter = "Sem 1"
    /\ result.value = <<[category |-> "Food", budget |-> 100, net_spending |-> 15,
                          remaining |-> 85, budget_type |-> "semester1"]>>

\* The transactions of the year that show under a category.
YearTransactionsOf(year_label, category) ==
    {t \in BagToSet(accounting_transactions) :
        t.year_label = year_label /\ ResolvedCategory(t, year_label) = category}

\* C11 as claimed: every budget entry the period filter selects appears in the output
\* exactly once, and one whose category has no transaction in the year's stream (the
\* stream may be empty) appears with net_spending = 0 and remaining = budget.
C11_AsClaimed ==
    DashboardCurrent =>
        LET rows == result.value
            kept == SelectedEntries(result.year_label, result.period_filter)
        IN  \A e \in kept :
              /\ result.outcome = "returned"
              /\ Cardinality({i \in 1..Len(rows) :
                                 /\ rows[i].category = e.category_name
                                 /\ rows[i].budget_type = e.budget_type}) = 1
              /\ YearTransactionsOf(result.year_label, e.category_name) = {} =>
                    \A i \in 1..Len(rows) :
                        (rows[i].category = e.category_name
                            /\ rows[i].budget_type = e.budget_type) =>
                            /\ rows[i].net_spending = 0
                            /\ rows[i].remaining = to_numeric_fillna(e.budget)

\* C12: in every output row remaining = budget - net_spending, whatever the sign of
\* net_spending.
C12_RemainingIdentity ==
    (DashboardShown /\ result.outcome = "returned") =>
        \A i \in 1..Len(result.value) :
            result.value[i].remaining =
                result.value[i].budget - result.value[i].net_spending

\* A refund of 5 on Food (budget 100) leaves 105, above the budget; an expense of 20 on
\* food (budget 15) leaves -5.
C12_Witness ==
    /\ DashboardReturned /\ result.period_filter = "Everything"
    /\ \E i \in 1..Len(result.value) :
          /\ result.value[i].budget = 100 /\ result.value[i].net_spending = -5
          /\ result.value[i].remaining = 105
    /\ \E i \in 1..Len(result.value) :
          /\ result.value[i].budget = 15 /\ result.value[i].net_spending = 20
          /\ result.value[i].remaining = -5

\* C13 as claimed: when the join is made, every category of the year's stream has an
\* output row (with budget 0 when no selected budget entry carries its name), and every
\* selected budget entry without transactions has a row with net_spending 0.
C13_AsClaimed ==
    (DashboardReturned /\ result.fetched_transactions) =>
        LET rows == result.value
            y == result.year_label
            kept == SelectedEntries(y, result.period_filter)
            streamed == {ResolvedCategory(t, y) :
                            t \in {x \in BagToSet(accounting_transactions) : x.year_label = y}}
        IN  /\ \A c \in streamed :
                  \E i \in 1..Len(rows) :
                      /\ rows[i].category = c
                      /\ (\A e \in kept : e.category_name # c) => rows[i].budget = 0
            /\ \A e \in kept :
                  YearTransactionsOf(y, e.category_name) = {} =>
                      \E i \in 1..Len(rows) :
                          rows[i].category = e.category_name /\ rows[i].net_spending = 0

\* C14: the join is on the exact name: the year's transactions whose category differs
\* from a row's category only in letter case or surrounding whitespace add nothing to
\* that row's net_spending.
C14_ExactNameJoin ==
    DashboardReturned =>
        \A i \in 1..Len(result.value) :
            LET c == result.value[i].category
                alike == {t \in BagToSet(accounting_transactions) :
                             /\ t.year_label = result.year_label
                             /\ Normalized(ResolvedCategory(t, result.year_label))
                                   = Normalized(c)}
                near == {t \in alike : ResolvedCategory(t, result.year_label) # c}
            IN  result.value[i].net_spending = SignedTotal(alike) - SignedTotal(near)

\* Expenses of 20 booked on food and on " Food" leave the Food row at net_spending 0.
C14_Witness ==
    /\ DashboardReturned /\ result.period_filter = "Everything"
    /\ YearTransactionsOf("2025-26", "food") # {}
    /\ YearTransactionsOf("2025-26", " Food") # {}
    /\ \E i \in 1..Len(result.value) :
          result.value[i].category = "Food" /\ result.value[i].net_spending = 0
    /\ \E i \in 1..Len(result.value) :
          result.value[i].category = "food" /\ result.value[i].net_spending = 20
    /\ \E i \in 1..Len(result.value) :
          result.value[i].category = " Food" /\ result.value[i].net_spending = 20

-----------------------------------------------------------------------------
(* Properties of the cash flow and the cash position *)

\* How a call ended and, when it returned, what it returned.
Answer(r) == IF r.outcome = "returned" THEN <<"returned", r.value>> ELSE <<r.outcome>>

\* A call of the calculator is over and what it gave is shown.
CashFlowShown == result.op = "calculate_cash_flow_evolution" /\ result.pc = "done"
CashPositionShown == result.op = "calculate_current_cash_position" /\ result.pc = "done"
CashWithNwcShown == result.op = "calculate_cash_position_with_nwc" /\ result.pc = "done"

\* What is shown is what the call gives, on its day, on the store as it is: no write since
\* the call began has changed it.
CashFlowCurrent ==
    /\ CashFlowShown
    /\ Answer(result) = Answer(calculate_cash_flow_evolution(result.year_label, result.today))

CashPositionCurrent ==
    /\ CashPositionShown
    /\ Answer(result)
          = Answer(calculate_current_cash_position(result.year_label, result.today))

CashWithNwcCurrent ==
    /\ CashWithNwcShown
    /\ Answer(result)
          = Answer(calculate_cash_position_with_nwc(result.year_label, result.today))

\* The stored transactions of a year.
YearStream(year_label) ==
    {t \in BagToSet(accounting_transactions) :
        ~Falsy(year_label) /\ t.year_label = year_label}

\* The opening cash stored for a year, 0 without a budget-year row.
StoredOpeningCash(year_label) ==
    LET rows == {r \in accounting_budget_years : r.year_label = year_label}
    IN  IF rows = {} THEN 0 ELSE to_numeric_fillna((CHOOSE r \in rows : TRUE).opening_cash)

\* Inflows minus outflows of a set of stored transactions.
RECURSIVE CashTotal(_)
CashTotal(txns) ==
    IF txns = {} THEN 0
    ELSE LET t == CHOOSE x \in txns : TRUE
             signed == IF t.is_expense THEN 0 - to_numeric_fillna(t.amount)
                       ELSE to_numeric_fillna(t.amount)
         IN  CopiesIn(t, accounting_transactions) * signed + CashTotal(txns \ {t})

\* The calendar order of the ISO dates the model uses.
DateOrder == <<"2025-01-01", "2025-01-02", "2025-01-03">>
DateRank(d) == CHOOSE i \in 1..Len(DateOrder) : DateOrder[i] = d
\* The ISO date a point of the series is dated with.
IsoOf(point_date) == CHOOSE d \in {DateOrder[i] : i \in 1..Len(DateOrder)} :
                        to_datetime(d) = point_date

\* C15: when the year has transactions, each point's balance is the opening cash plus
\* the sum, over the year's transactions dated on or before the point's date, of -amount
\* for an expense and +amount otherwise.
C15_RunningBalance ==
    (CashFlowCurrent /\ YearStream(result.year_label) # {}) =>
        /\ result.outcome = "returned"
        /\ \A i \in 1..Len(result.value) :
              result.value[i].balance =
                  StoredOpeningCash(result.year_label)
                  + CashTotal({t \in YearStream(result.year_label) :
                                  DateRank(t.txn_date)
                                      <= DateRank(IsoOf(result.value[i].date))})

\* Scenario D: opening cash 100, +50 on 2025-01-02 and -30 on 2025-01-03 give 150, 120.
C15_Witness ==
    /\ CashFlowCurrent /\ result.year_label = "2025-26"
    /\ StoredOpeningCash("2025-26") = 100
    /\ result.outcome = "returned"
    /\ result.value = <<[date |-> 20250102, balance |-> 150],
                        [date |-> 20250103, balance |-> 120]>>

\* C16: when the year has transactions, the series is in ascending date order and holds
\* exactly one point per distinct date of the year's transactions and no other point.
C16_OnePointPerDate ==
    (CashFlowCurrent /\ YearStream(result.year_label) # {}) =>
        /\ result.outcome = "returned"
        /\ \A i \in 1..Len(result.value), j \in 1..Len(result.value) :
              i < j => DateRank(IsoOf(result.value[i].date))
                          < DateRank(IsoOf(result.value[j].date))
        /\ {IsoOf(result.value[i].date) : i \in 1..Len(result.value)}
              = {t.txn_date : t \in YearStream(result.year_label)}

\* Three transactions of the year, two of them on 2025-01-03 and one on 2025-01-02: two
\* points, and none for the day of the call.
C16_Witness ==
    /\ CashFlowCurrent /\ result.year_label = "2025-26" /\ result.outcome = "returned"
    /\ BagCardinality(accounting_transactions) = 3
    /\ \A t \in BagToSet(accounting_transactions) : t.year_label = "2025-26"
    /\ Cardinality({t \in YearStream("2025-26") : t.txn_date = "2025-01-03"}) = 2
    /\ Len(result.value) = 2
    /\ result.value[1].date = 20250102 /\ result.value[2].date = 20250103

\* C17 as claimed: for a year with no transaction of its own the series is exactly one
\* point, dated today, with the year's opening cash as balance, whether the store holds
\* transactions of other years or none at all.
C17_AsClaimed ==
    (CashFlowCurrent /\ result.year_label \in YearLabels
        /\ YearStream(result.year_label) = {}) =>
        /\ result.outcome = "returned"
        /\ result.value = <<[date |-> result.today,
                             balance |-> StoredOpeningCash(result.year_label)]>>

\* C18: the current cash position is the balance of the last, latest-dated point of the
\* year's series, which is the opening cash plus the inflows minus the outflows of the
\* year (the opening cash alone without transactions); the call returns exactly when
\* the series call does.
C18_CurrentCashPosition ==
    CashPositionCurrent =>
        LET series == calculate_cash_flow_evolution(result.year_label, result.today)
        IN  /\ result.outcome = series.outcome
            /\ result.outcome = "returned" =>
                  /\ \E i \in 1..Len(series.value) :
                        /\ series.value[i].balance = result.value
                        /\ \A j \in 1..Len(series.value) :
                              series.value[j].date <= series.value[i].date
                  /\ result.value = StoredOpeningCash(result.year_label)
                                        + CashTotal(YearStream(result.year_label))

\* Scenario D: the position is 120, the balance of 2025-01-03, not the 150 of 2025-01-02.
C18_Witness ==
    /\ CashPositionCurrent /\ result.year_label = "2025-26" /\ result.outcome = "returned"
    /\ StoredOpeningCash("2025-26") = 100
    /\ {<<t.txn_date, t.amount, t.is_expense>> : t \in YearStream("2025-26")}
          = {<<"2025-01-02", Num(50), FALSE>>, <<"2025-01-03", Num(30), TRUE>>}
    /\ BagCardinality(accounting_transactions) = 2
    /\ result.value = 120

\* C19: the cash position with NWC is the current cash position plus the nwc of the
\* working-capital metrics of the same year: it returns exactly when the cash position
\* does, with a value made of the stored rows alone.
C19_CashPlusNwc ==
    CashWithNwcCurrent =>
        LET y == result.year_label
            current_cash == calculate_current_cash_position(y, result.today)
        IN  /\ result.outcome = current_cash.outcome
            /\ result.outcome = "returned" =>
                  /\ result.value =
                        current_cash.value + calculate_working_capital_metrics(y).nwc
                  /\ result.value =
                        StoredOpeningCash(y) + CashTotal(YearStream(y))
                        + AmountTotal(StoredWC("AR", y), working_capital)
                        + AmountTotal(StoredWC("INVENTORY", NULL), working_capital)
                        - AmountTotal(StoredWC("AP", y), working_capital)

\* Cash 100 + 50 - 30 = 120, receivables 100 and inventory 60 of another book year: 280.
C19_Witness ==
    /\ CashWithNwcCurrent /\ result.year_label = "2025-26" /\ result.outcome = "returned"
    /\ calculate_current_cash_position("2025-26", result.today).value = 120
    /\ calculate_working_capital_metrics("2025-26").total_ar = 100
    /\ calculate_working_capital_metrics("2025-26").nwc = 160
    /\ result.value = 280

-----------------------------------------------------------------------------
(* Properties of the calculators as a whole *)

\* A calculator call is over and what it gave is shown.
CalculatorShown == result.pc = "done"

\* What is shown is what the call gives on the store as it is.
CalculatorCurrent ==
    \/ BudgetMetricsCurrent \/ WCMetricsCurrent \/ DashboardCurrent
    \/ CashFlowCurrent \/ CashPositionCurrent \/ CashWithNwcCurrent

\* The call that gave r, made again on day d, gives the identical result.
SameAgain(r, d) ==
    CASE r.op = "calculate_budget_metrics" ->
            r.value = calculate_budget_metrics(r.year_label)
      [] r.op = "calculate_working_capital_metrics" ->
            r.value = calculate_working_capital_metrics(r.year_label)
      [] r.op = "calculate_dashboard_data" ->
            Answer(r) = Answer(calculate_dashboard_data(r.year_label, r.period_filter))
      [] r.op = "calculate_cash_flow_evolution" ->
            Answer(r) = Answer(calculate_cash_flow_evolution(r.year_label, d))
      [] r.op = "calculate_current_cash_position" ->
            Answer(r) = Answer(calculate_current_cash_position(r.year_label, d))
      [] r.op = "calculate_cash_position_with_nwc" ->
            Answer(r) = Answer(calculate_cash_position_with_nwc(r.year_label, d))

\* The series r computed again on day d: the same but for the date of the single point
\* of a year without transactions, which is d.
SameSeriesButFallbackDate(r, d) ==
    LET again == calculate_cash_flow_evolution(r.year_label, d)
    IN  /\ again.outcome = r.outcome
        /\ r.outcome = "returned" =>
              /\ Len(again.value) = Len(r.value)
              /\ \A i \in 1..Len(r.value) :
                    /\ again.value[i].balance = r.value[i].balance
                    /\ \/ again.value[i].date = r.value[i].date
                       \/ /\ YearStream(r.year_label) = {}
                          /\ Len(r.value) = 1
                          /\ r.value[i].date = r.today
                          /\ again.value[i].date = d

\* What the call r has fetched so far is what its requests return on the store as it is:
\* the transactions it kept are those of a table that held a row, as the table still does.
FetchedAsStored(r) ==
    LET y == r.year_label
        has(field) == field \in DOMAIN r
    IN  /\ has("opening_cash") => r.opening_cash = get_opening_cash(y)
        /\ has("savings") => r.savings = get_savings(y)
        /\ has("budget_df") =>
              r.budget_df = filter_budget(fetch_budget_entries(y), r.period_filter)
        /\ has("transaction_df") =>
              /\ fetch_transactions # EmptyBag
              /\ r.transaction_df = transactions_of_year(y, fetch_transactions)
        /\ has("current_cash") =>
              <<"returned", r.current_cash>>
                  = Answer(calculate_current_cash_position(y, r.today))
        /\ has("ar") => r.ar = ar_totals(load_working_capital(y, "AR"))
        /\ has("total_ap") => r.total_ap = total_amount(load_working_capital(y, "AP"))

\* The call r is in line with the store: what it has fetched is what is stored and, once
\* it is over, what it gave is what the same call gives again on any day.
InLineIdentical(r) ==
    /\ FetchedAsStored(r)
    /\ r.pc = "done" => \A d \in TodayInputs : SameAgain(r, d)

\* The same, but for the date of the fallback point of the series.
InLine(r) ==
    /\ FetchedAsStored(r)
    /\ r.pc = "done" =>
          \A d \in TodayInputs :
              IF r.op = "calculate_cash_flow_evolution"
              THEN SameSeriesButFallbackDate(r, d) ELSE SameAgain(r, d)

\* A step of a calculator call, from its entry to its last request and to the end of the
\* run, changes no stored row.
CalculatorStepReadsOnly == (result' # result) => UNCHANGED store

\* C20 as claimed: a calculator call made again on the unchanged store, on whatever day,
\* returns the identical result.
C20_AsClaimed ==
    [][(UNCHANGED store /\ result' # result)
          => (InLineIdentical(result') \/ ~InLineIdentical(result))]_vars

\* C20: every step of a calculator call leaves every stored row unchanged, and a call
\* whose requests all met the same store gives what the same call gives again on that
\* store: it ends the same way with the identical result, except that the single point
\* calculate_cash_flow_evolution returns for a year without transactions carries the day
\* of the call as its date.
C20_ReadOnlyIdempotent ==
    /\ [][CalculatorStepReadsOnly]_vars
    /\ [][(UNCHANGED store /\ result' # result)
             => (InLine(result') \/ ~InLine(result))]_vars

\* The fallback point of a year with opening cash 100 and budget rows but no transaction
\* of its own, in a store that holds another year's transactions: the same call a day
\* later differs in the date alone.
C20_Witness ==
    /\ CashFlowCurrent /\ result.year_label = "2025-26" /\ result.today = 20250104
    /\ accounting_transactions # EmptyBag
    /\ result.outcome = "returned"
    /\ result.value = <<[date |-> 20250104, balance |-> 100]>>
    /\ calculate_cash_flow_evolution("2025-26", 20250105).value
          = <<[date |-> 20250105, balance |-> 100]>>

-----------------------------------------------------------------------------
(* Properties of the calculators on empty fetches *)

\* Every fetch made for the year comes back empty: no budget entry, no transaction and
\* no working-capital row of the year, and no inventory row at all.
EmptyYear(year_label) ==
    /\ \A b \in accounting_budget : b.year_label # year_label
    /\ YearStream(year_label) = {}
    /\ StoredWC("AR", year_label) = {} /\ StoredWC("AP", year_label) = {}
    /\ StoredWC("INVENTORY", NULL) = {}

\* C21 as claimed: no calculator raises or halts on an empty fetch; for a year with no
\* budget entries, no transactions and no working-capital rows the budget and the
\* working-capital metrics are zero aggregates, the dashboard is an empty sequence and
\* the cash flow series is its fallback point.
C21_AsClaimed ==
    (CalculatorCurrent /\ result.year_label \in YearLabels) =>
        /\ (DashboardShown \/ CashFlowShown) => result.outcome = "returned"
        /\ EmptyYear(result.year_label) =>
              /\ BudgetMetricsShown =>
                    /\ result.value.total_income = 0
                    /\ result.value.total_expenses_sem1 = 0
                    /\ result.value.total_expenses_sem2 = 0
                    /\ result.value.total_expenses_year = 0
                    /\ result.value.total_expenses_all = 0
              /\ WCMetricsShown =>
                    /\ result.value.total_ar = 0 /\ result.value.total_ap = 0
                    /\ result.value.total_inventory = 0 /\ result.value.nwc = 0
              /\ DashboardShown => result.value = <<>>
              /\ CashFlowShown =>
                    /\ result.outcome = "returned"
                    /\ result.value = <<[date |-> result.today,
                                         balance |-> StoredOpeningCash(result.year_label)]>>

-----------------------------------------------------------------------------
(* Properties relating the cash flow and the dashboard *)

\* C26: every transaction's cash-flow sign is the negation of its net-spending sign, and
\* a returned cash position lies below the opening cash by the sum, over the categories
\* of the year's transactions, of the dashboard's net spending.
C26_SignsConsistent ==
    /\ \A t \in BagToSet(accounting_transactions) : flow(t) = 0 - net_amount(t)
    /\ (CashPositionCurrent /\ result.outcome = "returned") =>
          LET txn_df == fetch_transactions_with_categories(result.year_label)
              spending == spending_series(txn_df.df)
          IN  /\ txn_df.outcome = "returned"
              /\ StoredOpeningCash(result.year_label) - result.value
                    = SumSpending(DOMAIN spending, spending)
              /\ StoredOpeningCash(result.year_label) - result.value
                    = SignedTotal(YearStream(result.year_label))

\* Scenario D: income 50 and expense 30 give a net spending of -20 and a position of 120
\* on an opening cash of 100.
C26_Witness ==
    /\ CashPositionCurrent /\ result.year_label = "2025-26" /\ result.outcome = "returned"
    /\ StoredOpeningCash("2025-26") = 100 /\ result.value = 120
    /\ SignedTotal(YearStream("2025-26")) = 0 - 20
    /\ \E t \in YearStream("2025-26") : t.is_expense /\ t.amount = Num(30)
    /\ \E t \in YearStream("2025-26") : ~t.is_expense /\ t.amount = Num(50)

\* C27: every output row carries its category's net spending over all of the year's
\* transactions, whatever the period filter: a row of the same category in the result of
\* any filter, and a second entry of the same name in the same result, carry the same
\* amount.
C27_NetSpendingUnrestricted ==
    DashboardReturned =>
        \A f \in PeriodFilters :
            LET rows == result.value
                other == calculate_dashboard_data(result.year_label, f)
            IN  other.outcome = "returned" =>
                    \A i \in 1..Len(rows), j \in 1..Len(other.value) :
                        rows[i].category = other.value[j].category =>
                            /\ rows[i].net_spending = other.value[j].net_spending
                            /\ rows[i].net_spending =
                                  SignedTotal(YearTransactionsOf(result.year_label,
                                                                 rows[i].category))

\* Food budgeted for semester1 and for semester2 with one Food expense of 20: Everything
\* shows 20 on both rows, and Sem 2 shows the same 20 on its one row.
C27_Witness ==
    /\ DashboardReturned /\ result.year_label = "2025-26"
    /\ result.period_filter = "Everything"
    /\ \E i, j \in 1..Len(result.value) :
          /\ result.value[i].category = "Food" /\ result.value[i].budget_type = "semester1"
          /\ result.value[j].category = "Food" /\ result.value[j].budget_type = "semester2"
          /\ result.value[i].net_spending = 20 /\ result.value[j].net_spending = 20
    /\ LET sem2 == calculate_dashboard_data("2025-26", "Sem 2")
       IN  /\ sem2.outcome = "returned" /\ Len(sem2.value) = 1
           /\ sem2.value[1].net_spending = 20

\* C29: a returned series has at least one point, so a returned cash position is the
\* balance of a point; for a year without transactions that point is the fallback point
\* and the position the year's opening cash.
C29_SeriesNeverEmpty ==
    /\ (CashFlowShown /\ result.outcome = "returned") => Len(result.value) >= 1
    /\ (CashPositionCurrent /\ result.outcome = "returned") =>
          LET series == calculate_cash_flow_evolution(result.year_label, result.today)
          IN  /\ series.outcome = "returned"
              /\ series.value # <<>>
              /\ YearStream(result.year_label) = {} =>
                    /\ series.value = <<[date |-> result.today,
                                         balance |-> StoredOpeningCash(result.year_label)]>>
                    /\ result.value = StoredOpeningCash(result.year_label)

\* The position of a year holding no transaction of its own, in a store that holds one
\* of the other year: the opening cash of 100.
C29_Witness ==
    /\ CashPositionCurrent /\ result.year_label = "2025-26" /\ result.outcome = "returned"
    /\ YearStream("2025-26") = {} /\ accounting_transactions # EmptyBag
    /\ StoredOpeningCash("2025-26") = 100
    /\ result.value = 100

\* What a caller gets from a call: the value when it returned, nothing when the run was
\* stopped or an exception left the call.
ValueOrNothing(r) == IF r.outcome = "returned" THEN <<"returned", r.value>> ELSE <<"nothing">>

\* A step that leaves the year's own transactions, and every other table, as they were.
OtherYearsTransactionsOnly(year_label) ==
    /\ \A t \in BagToSet(accounting_transactions) \cup BagToSet(accounting_transactions') :
          t.year_label = year_label =>
              CopiesIn(t, accounting_transactions) = CopiesIn(t, accounting_transactions')
    /\ UNCHANGED <<unique_budget_key, accounting_budget_years, accounting_budget, working_capital>>

\* C30 as claimed: a step that adds, changes or removes only transactions of other years
\* leaves the year's cash flow series, cash position and dashboard as they were, the
\* first transaction of the whole store included.
C30_AsClaimed ==
    [][\A y \in YearLabels :
          OtherYearsTransactionsOnly(y) =>
              /\ \A d \in TodayInputs :
                    /\ ValueOrNothing(calculate_cash_flow_evolution(y, d))
                          = ValueOrNothing(calculate_cash_flow_evolution(y, d))'
                    /\ ValueOrNothing(calculate_current_cash_position(y, d))
                          = ValueOrNothing(calculate_current_cash_position(y, d))'
              /\ \A f \in PeriodFilters :
                    ValueOrNothing(calculate_dashboard_data(y, f))
                        = ValueOrNothing(calculate_dashboard_data(y, f))']_vars

-----------------------------------------------------------------------------
(* Editing the budget categories *)

MaxEditRows == 2

\* Nothing of the application creates the table accounting_budget or its constraints: the
\* database carries the unique constraint the docstring of add_budget_category speaks
\* of, or it does not.
InitBudgetEdit ==
    /\ accounting_budget_years = {}
    /\ accounting_budget = {}
    /\ accounting_transactions = EmptyBag
    /\ working_capital = EmptyBag
    /\ result = NoResult
    /\ runs = EmptyBag
    /\ unique_budget_key \in BOOLEAN

EditBudgetInputs ==
    { <<"2025-26", "Food", "semester1", 100>>,
      <<"2025-26", "Food", "semester2", 60>>,
      <<"2025-26", "Rent", "semester2", 80>>,
      <<"2025-26", "Rent", "year", 80>> }

\* What the edit form is saved with: a name, a type and an amount.
EditNames == {"Rent", "Gala"}
EditTypes == {"semester2"}
EditAmounts == {50}

\* The three functions called one after the other, by the budget page or by any other
\* caller.
NextBudgetEdit ==
    \/ \E p \in EditBudgetInputs :
          /\ Cardinality(accounting_budget) < MaxEditRows
          /\ add_budget_category(p[1], p[2], p[3], p[4])
    \/ \E r \in accounting_budget, n \in EditNames, t \in EditTypes, a \in EditAmounts :
          update_budget_category(r.year_label, r.category_name, n, r.budget_type, t, a)
    \/ update_category_name
    \/ update_budget_type
    \/ update_budget
    \/ \E r \in accounting_budget, t \in {NULL, "semester2"} :
          delete_budget_category(r.year_label, r.category_name, t)

SpecBudgetEdit == InitBudgetEdit /\ [][NextBudgetEdit]_vars

FullyApplied(after, r, new_name, new_type, amount) ==
    \E q \in after :
        /\ q.id = r.id /\ q.category_name = new_name
        /\ q.budget_type = new_type /\ q.budget = Num(amount)

\* C25 as claimed: a call of update_budget_category, with nothing else written while it
\* runs, leaves the targeted row with the new name, the new type and the new amount, or
\* leaves the budget table exactly as it was.
C25_AsClaimed ==
    \A r \in accounting_budget, n \in EditNames, t \in EditTypes, a \in EditAmounts :
        LET after == budget_after_update(accounting_budget, r.year_label, r.category_name,
                                         n, r.budget_type, t, a)
        IN  FullyApplied(after, r, n, t, a) \/ after = accounting_budget

-----------------------------------------------------------------------------
(* The amounts the insert page stores *)

MaxInsertTransactions == 2

\* The Amount field is a number_input without a minimum: it takes any number.
InsertAmountInputs == {20, 0 - 5}

NextInsert ==
    \/ \E y \in YearLabels, oc \in CashOpeningInputs, sv \in SavingsInputs :
          create_budget_year(y, Num(oc), Num(sv))
    \/ \E p \in CashBudgetInputs :
          /\ p[1] \in fetch_budget_year_labels
          /\ add_budget_category(p[1], p[2], p[3], p[4])
    \/ \E y \in YearLabels : InsertPageYears(y)
    \/ \E p \in CashBudgetInputs : InsertPageCategories(p[2])
    \/ InsertPageCategoryId
    \/ \E a \in InsertAmountInputs, e \in BOOLEAN :
          /\ BagCardinality(accounting_transactions) < MaxInsertTransactions
          /\ InsertManually("2025-01-02", Num(a), e)
    \/ PageRunEnds
    \/ \E r \in accounting_budget :
          delete_budget_category(r.year_label, r.category_name, NULL)
    \/ \E rows \in SubBag(accounting_transactions) : delete_transactions(rows)

SpecInsert == Init /\ [][NextInsert]_vars

\* C24 as claimed: after any sequence of inserts made from the insert page and the
\* scanner page no stored transaction has an amount below 0.
C24_AsClaimed ==
    \A t \in BagToSet(accounting_transactions) : to_numeric_fillna(t.amount) >= 0

-----------------------------------------------------------------------------
(* The dashboard under period filters it has no name for *)

MaxFilterBudgetRows == 3
MaxFilterTransactions == 2

\* The three names the function compares with, Everything, and values that are none of
\* them: differently spelled, differently cased, empty, unset.
AnyPeriodFilters == PeriodFilters \cup {"Sem1", "everything", "Q1", "", NULL}

FilterBudgetInputs ==
    { <<"2025-26", "Food", "semester1", 100>>,
      <<"2025-26", "Food", "semester2", 60>>,
      <<"2025-26", "Rent", "year", 80>>,
      <<"2025-26", "Dues", "income", 500>> }

NextFilter ==
    \/ \E oc \in OpeningCashInputs, s \in SavingsInputs :
          create_budget_year("2025-26", Num(oc), Num(s))
    \/ \E p \in FilterBudgetInputs :
          /\ Cardinality(accounting_budget) < MaxFilterBudgetRows
          /\ p[1] \in fetch_budget_year_labels
          /\ add_budget_category(p[1], p[2], p[3], p[4])
    \/ \E l \in JoinTransactionLinks, a \in TransactionInputs :
          /\ BagCardinality(accounting_transactions) < MaxFilterTransactions
          /\ insert_transaction([year_label |-> l[1], txn_date |-> "2025-01-01",
                                 budget_category_id |-> l[2], amount |-> a[1],
                                 is_expense |-> a[2]])
    \/ \E y \in YearInputs, f \in AnyPeriodFilters : DashboardPage(y, f)
    \/ fetch_budget_entries_returns
    \/ fetch_transactions_returns
    \/ fetch_categories_df_returns
    \/ \E rows \in SubBag(accounting_transactions) : delete_transactions(rows)
    \/ EndOfRun

SpecFilter == Init /\ [][NextFilter]_vars

\* C28: under every period_filter other than the exact strings "Sem 1", "Sem 2" and
\* "Year Expenses" the call gives what it gives under Everything: the year's semester1,
\* semester2 and year entries, one row each when it returns.
C28_UnknownFilterIsEverything ==
    (DashboardCurrent /\ result.period_filter \notin {"Sem 1", "Sem 2", "Year Expenses"}) =>
        LET everything == calculate_dashboard_data(result.year_label, "Everything")
            expenses == {e \in accounting_budget :
                            /\ e.year_label = result.year_label
                            /\ e.budget_type \in {"semester1", "semester2", "year"}}
        IN  /\ Answer(result) = Answer(everything)
            /\ result.outcome = "returned" =>
                  /\ Len(result.value) = Cardinality(expenses)
                  /\ {<<result.value[i].category, result.value[i].budget_type>> :
                          i \in 1..Len(result.value)}
                        = {<<e.category_name, e.budget_type>> : e \in expenses}

\* The filter spelled Sem1 on a year holding a semester1, a semester2 and an income
\* entry: both expense rows come back, not the semester1 row alone and not none.
C28_Witness ==
    /\ DashboardReturned /\ result.year_label = "2025-26"
    /\ result.period_filter = "Sem1"
    /\ \E e \in accounting_budget : e.year_label = "2025-26" /\ e.budget_type = "income"
    /\ Len(result.value) = 2
    /\ {result.value[i].budget_type : i \in 1..2} = {"semester1", "semester2"}

-----------------------------------------------------------------------------
(* The calculators over tables holding cells that are no numbers *)

MaxCoerceRows == 2

\* Rows as the tables may hold them: a budget, an amount or an opening cash that is NULL
\* or text beside ones that are numbers.
CoerceBudgetRows ==
    { [id |-> 1, year_label |-> "2025-26", category_name |-> "Food",
       budget_type |-> "semester1", budget |-> NonNumeric],
      [id |-> 2, year_label |-> "2025-26", category_name |-> "Rent",
       budget_type |-> "year", budget |-> Num(80)],
      [id |-> 3, year_label |-> "2025-26", category_name |-> "Dues",
       budget_type |-> "income", budget |-> NonNumeric],
      [id |-> 4, year_label |-> "2025-26", category_name |-> "Gala",
       budget_type |-> "income", budget |-> Num(500)] }

CoerceTransactionRows ==
    { [year_label |-> "2025-26", txn_date |-> "2025-01-02", budget_category_id |-> Num(1),
       amount |-> Num(20), is_expense |-> TRUE],
      [year_label |-> "2025-26", txn_date |-> "2025-01-03", budget_category_id |-> Num(1),
       amount |-> NonNumeric, is_expense |-> TRUE],
      [year_label |-> "2025-26", txn_date |-> "2025-01-03", budget_category_id |-> Num(2),
       amount |-> NonNumeric, is_expense |-> FALSE],
      [year_label |-> "2025-26", txn_date |-> "2025-01-02", budget_category_id |-> Num(2),
       amount |-> Num(5), is_expense |-> FALSE] }

CoerceWCRows ==
    { [id |-> 211000, book_year_label |-> "2025-26", kind |-> "AR",
       kind_detail |-> "Member", amount |-> NonNumeric],
      [id |-> 211100, book_year_label |-> "2025-26", kind |-> "AR",
       kind_detail |-> "Member", amount |-> Num(100)],
      [id |-> 220000, book_year_label |-> "2025-26", kind |-> "AP",
       kind_detail |-> NULL, amount |-> NonNumeric],
      [id |-> 230060, book_year_label |-> "2025-26", kind |-> "INVENTORY",
       kind_detail |-> NULL, amount |-> Num(60)] }

CoerceYearRows ==
    { [year_label |-> "2025-26", opening_cash |-> Num(100), savings |-> Num(30)],
      [year_label |-> "2025-26", opening_cash |-> NonNumeric, savings |-> Num(30)] }

AtMost(rows, n) == {s \in SUBSET rows : Cardinality(s) <= n}

\* The tables the calculators are applied to: any few of the rows above, every
\* transaction linked to a budget row that is there.
InitCoerce ==
    /\ accounting_budget_years \in AtMost(CoerceYearRows, 1)
    /\ accounting_budget \in AtMost(CoerceBudgetRows, MaxCoerceRows)
    /\ accounting_transactions \in
          {SetToBag(s) : s \in {x \in AtMost(CoerceTransactionRows, MaxCoerceRows) :
              \A t \in x : \E b \in accounting_budget : Num(b.id) = t.budget_category_id}}
    /\ working_capital \in {SetToBag(s) : s \in AtMost(CoerceWCRows, MaxCoerceRows)}
    /\ result = NoResult
    /\ runs = EmptyBag
    /\ unique_budget_key = TRUE

NextCoerce ==
    \/ BudgetMetricsPage("2025-26")
    \/ WorkingCapitalPage("2025-26")
    \/ \E f \in PeriodFilters : DashboardPage("2025-26", f)
    \/ \E d \in TodayInputs : CashFlowCall("2025-26", d)
    \/ get_opening_cash_returns
    \/ get_savings_returns
    \/ fetch_budget_entries_returns
    \/ fetch_transactions_returns
    \/ fetch_categories_df_returns
    \/ load_working_capital_AR_returns
    \/ load_working_capital_AP_returns
    \/ load_working_capital_INVENTORY_returns
    \/ EndOfRun

SpecCoerce == InitCoerce /\ [][NextCoerce]_vars

\* The sum of the budget cells that are numbers, of a set of accounting_budget rows.
RECURSIVE NumericBudgetSum(_)
NumericBudgetSum(rows) ==
    IF rows = {} THEN 0
    ELSE LET r == CHOOSE x \in rows : TRUE
         IN  (IF r.budget = NonNumeric THEN 0 ELSE r.budget[1])
                + NumericBudgetSum(rows \ {r})

\* The sum of the amount cells that are numbers, of rows of a table held as a bag.
RECURSIVE NumericAmountSum(_, _)
NumericAmountSum(rows, table) ==
    IF rows = {} THEN 0
    ELSE LET r == CHOOSE x \in rows : TRUE
         IN  (IF r.amount = NonNumeric THEN 0 ELSE CopiesIn(r, table) * r.amount[1])
                + NumericAmountSum(rows \ {r}, table)

\* Expenses minus incomes over the transactions whose amount is a number.
NumericNetSpending(txns) ==
    NumericAmountSum({t \in txns : t.is_expense}, accounting_transactions)
        - NumericAmountSum({t \in txns : ~t.is_expense}, accounting_transactions)

\* The opening cash of the year when it is stored as a number, 0 otherwise.
NumericOpeningCash(year_label) ==
    LET cells == {r.opening_cash : r \in {x \in accounting_budget_years :
                                             x.year_label = year_label}}
    IN  IF cells = {} \/ cells = {NonNumeric} THEN 0 ELSE (CHOOSE c \in cells : TRUE)[1]

\* C22: a budget or amount cell that is no number counts as 0 in every calculator and
\* never makes one raise: the budget totals, the working-capital totals, the dashboard's
\* budget and net_spending and the balances of the cash flow are the sums over the cells
\* that are numbers, and a date holding only such amounts still has its point.
C22_NonNumericCountsZero ==
    /\ BudgetMetricsShown =>
          LET m == result.value
              y == result.year_label
          IN  /\ m.opening_cash = NumericOpeningCash(y)
              /\ m.total_income = NumericBudgetSum(EntriesOfType(y, "income"))
              /\ m.total_expenses_sem1 = NumericBudgetSum(EntriesOfType(y, "semester1"))
              /\ m.total_expenses_sem2 = NumericBudgetSum(EntriesOfType(y, "semester2"))
              /\ m.total_expenses_year = NumericBudgetSum(EntriesOfType(y, "year"))
    /\ WCMetricsShown =>
          LET m == result.value
              y == result.year_label
          IN  /\ m.total_ar = NumericAmountSum(StoredWC("AR", y), working_capital)
              /\ m.total_ap = NumericAmountSum(StoredWC("AP", y), working_capital)
              /\ m.total_inventory
                    = NumericAmountSum(StoredWC("INVENTORY", NULL), working_capital)
              /\ m.total_ar_member
                    = NumericAmountSum(StoredAR(y, {"Member"}), working_capital)
    /\ DashboardShown =>
          /\ result.outcome # "raised"
          /\ accounting_transactions # EmptyBag => result.outcome = "returned"
          /\ result.outcome = "returned" =>
                \A i \in 1..Len(result.value) :
                    LET row == result.value[i]
                    IN  /\ \E e \in accounting_budget :
                              /\ e.year_label = result.year_label
                              /\ e.category_name = row.category
                              /\ e.budget_type = row.budget_type
                              /\ row.budget = NumericBudgetSum({e})
                        /\ row.net_spending =
                              NumericNetSpending(YearTransactionsOf(result.year_label,
                                                                    row.category))
    /\ CashFlowShown =>
          /\ result.outcome # "raised"
          /\ accounting_transactions # EmptyBag => result.outcome = "returned"
          /\ (result.outcome = "returned" /\ YearStream(result.year_label) # {}) =>
                /\ {result.value[i].date : i \in 1..Len(result.value)}
                      = {to_datetime(t.txn_date) : t \in YearStream(result.year_label)}
                /\ \A i \in 1..Len(result.value) :
                      result.value[i].balance =
                          NumericOpeningCash(result.year_label)
                            - NumericNetSpending(
                                  {t \in YearStream(result.year_label) :
                                      to_datetime(t.txn_date) <= result.value[i].date})

\* Food budgeted with a cell that is no number, one Food expense of 20 and one whose
\* amount is no number: the row shows budget 0, net_spending 20 and remaining -20.
C22_Witness ==
    /\ DashboardReturned /\ result.year_label = "2025-26"
    /\ \E e \in accounting_budget : e.category_name = "Food" /\ e.budget = NonNumeric
    /\ \E t \in YearStream("2025-26") : t.amount = NonNumeric /\ t.budget_category_id = Num(1)
    /\ \E t \in YearStream("2025-26") : t.amount = Num(20) /\ t.budget_category_id = Num(1)
    /\ \E i \in 1..Len(result.value) :
          /\ result.value[i].category = "Food" /\ result.value[i].budget = 0
          /\ result.value[i].net_spending = 20 /\ result.value[i].remaining = 0 - 20

====
